---- MODULE Spec2Model ----
(***************************************************************************)
(* State-machine model of the CoinBot trading system.                      *)
(*                                                                         *)
(*   Trader            src/core/trader.py                                  *)
(*   RiskManager       src/core/risk_manager.py                            *)
(*   TradingBot        src/main.py                                         *)
(*   EnhancedErrorHandler  src/utils/enhanced_error_handler.py             *)
(*   Settings          src/config/settings.py                              *)
(*                                                                         *)
(* Time is counted in minutes (every threshold of the code, 180 s, 24 h,   *)
(* 72 h, is a whole number of minutes).  Money is counted in KRW and       *)
(* ratios are compared by cross-multiplication, so that the arithmetic is  *)
(* exact.  Confidence is counted in hundredths.                            *)
(***************************************************************************)
EXTENDS Integers, Sequences, FiniteSets, TLC

(***************************************************************************)
(* Bounds of the model.                                                    *)
(***************************************************************************)
MaxOrders == 2          \* Order objects constructed by one Trader object
MaxTicks == 1           \* advances of the wall clock
MaxAlerts == 2          \* alerts the risk manager keeps
MaxLoops == 2           \* iterations of the main loop
MaxSleeps == 2          \* sleeps of the main loop
MaxErrors == 2          \* errors reported to the error handler
MaxWaits == 2           \* advances of the clock of the error handler

(***************************************************************************)
(* Program constants.                                                      *)
(***************************************************************************)
DAY == 1440                 \* timedelta.seconds wraps at one day
COOLDOWN == 3               \* 180 s same-ticker cool-down
MIN_CONFIDENCE == 60        \* execution gate: confidence < 0.6 is refused
DAILY_TRADE_LIMIT == 20     \* daily_trade_count >= 20 is refused
HOLD_TIME_BASED == 1440     \* holding_hours >= 24
HOLD_FORCE == 4320          \* holding_hours >= 72
TIME_LOSS_PCT == 2          \* unrealized_pnl_ratio < -0.02
EMERGENCY_LOSS_PCT == 10    \* unrealized_pnl_ratio <= -0.10

(***************************************************************************)
(* The settings object handed to the Trader (the fields it reads).         *)
(***************************************************************************)
max_positions == 2
capital_per_position == 100 * 100
min_order_amount == 50 * 100
max_daily_loss == 100000         \* settings.trading.max_daily_loss, compared with a sum of ratios

(***************************************************************************)
(* The environment: tickers, prices, balances, clock steps.                *)
(***************************************************************************)
Tickers == {"KRW-BTC", "KRW-ETH"}
None == 0                                 \* a failed price query (falsy)
EntryPrices == {100}                      \* price quoted when a BUY is placed
Prices == {85, 90, 100, 110}             \* prices quoted afterwards
SellPrices == {90}                        \* prices quoted when a SELL is placed
Balances == {0, 50}                       \* coin balance the exchange reports
KrwBalances == {0, capital_per_position}  \* KRW balance the exchange reports
StartTimes == {720}                       \* time of day at start: 12:00
Steps == {COOLDOWN, HOLD_TIME_BASED, HOLD_FORCE}
DatetimeMin == 0 - DAY                    \* datetime.min, a midnight long ago
Confidences == {55, 65, 70}
StopLosses == {85}
TakeProfits == {110}
Signals == [action : {"BUY", "SELL", "HOLD"}, ticker : Tickers,
            confidence : Confidences, stop_loss : StopLosses,
            take_profit : TakeProfits]

VARIABLES
    positions,          \* Trader.positions: position_id -> Position
    order_history,      \* Trader.order_history
    daily_trade_count,  \* Trader.daily_trade_count
    daily_loss,         \* Trader.daily_loss, as KRW (ratio * capital_per_position)
    last_trade_time,    \* Trader.last_trade_time: ticker -> time
    upbit,              \* Trader.upbit is not None
    positions_file,     \* data/trades/positions.json
    exchange_orders,    \* market orders the exchange has received
    traded_at,          \* the exchange's record: ticker -> time of its last filled order
    orders_created,     \* Order objects constructed by this Trader object
    safe_mode,          \* Settings.safe_mode
    now,                \* wall clock, minutes
    ticks,              \* clock advances so far
    rm_emergency_mode,  \* RiskManager.emergency_mode
    risk_override,      \* RiskManager.risk_override
    risk_alerts,        \* RiskManager.risk_alerts, the alert types
    daily_start_capital,\* RiskManager.daily_start_capital
    approved,           \* BUY signals RiskManager.validate_signal has approved
    bot_emergency_mode, \* TradingBot.emergency_mode
    last_health_check,  \* TradingBot.last_health_check
    loop_count,         \* loop_count of TradingBot._main_loop
    iteration,          \* what the loop iteration that ran last did
    emergency_mode_threshold,  \* EnhancedErrorHandler.config["emergency_mode_threshold"]
    eh_emergency_mode,  \* EnhancedErrorHandler.emergency_mode
    eh_safe_mode,       \* EnhancedErrorHandler.safe_mode
    consecutive_errors, \* system_health.consecutive_errors
    error_history,      \* EnhancedErrorHandler.error_history
    overall_score,      \* system_health.overall_score, tenths
    api_connection_score,
    network_stability_score,
    data_collection_score,
    trading_system_score,
    error_rate_score,
    eh_log,             \* the last emergency-mode line of the handler's log
    strategies,         \* StrategyEngine.strategies: strategy_id -> TradingStrategy
    enabled,            \* TelegramBot.enabled
    last_message_time,  \* TelegramBot.last_message_time: message type -> seconds
    time_time,          \* time.time(), in seconds
    outbox,             \* the requests posted to the chat API, oldest first
    restart_count,      \* EnhancedBotMonitor.restart_count
    bot_alive,          \* a process running main.py exists
    launches,           \* the processes the monitor has started, oldest first
    launcher_pc,        \* where BotLauncher.run is: poll, restart_sleep,
                        \* start_bot, assign, check_sleep, returned, exited
    launcher_restarts,  \* BotLauncher.restart_count
    should_restart,     \* BotLauncher.should_restart
    bot_process,        \* BotLauncher.bot_process: an index of children
    children,           \* the child processes the launcher has started
    launcher_clock,     \* seconds the launcher has slept
    files,              \* the JSON snapshot files on disk: name -> content
    writing,            \* the file the trading process has open for writing
    saves,              \* snapshots the trading process has started to write
    reader_saw,         \* what another process last read from a snapshot
    db_file,            \* the live database file: the rows it holds
    pre_restore_backup, \* backups/pre_restore_backup.db: rows, or NoFile
    db_lock,            \* DatabaseManager._lock: the thread holding it, or Free
    db_threads,         \* what each thread is doing in the DatabaseManager
    is_running,         \* TradingBot.is_running
    main_pc,            \* where _main_loop is: body, sleep or ended
    scan_log,           \* the tickers of the last scan and what became of each
    data_cache,         \* DataCollector.data_cache: cache key -> data and timestamp
    cache_now,          \* datetime.now() of the data collector, in seconds
    queries,            \* OHLCV queries the exchange has received
    ohlcv_ret,          \* what get_ohlcv returned last, and from where
    reset_log,          \* the times at which the daily reset was logged
    no_restart          \* the launcher was started with --no-restart

traderVars == <<positions, order_history, daily_trade_count, daily_loss,
                last_trade_time, upbit, positions_file, exchange_orders,
                traded_at, orders_created, safe_mode, now, ticks>>

riskVars == <<rm_emergency_mode, risk_override, risk_alerts, daily_start_capital,
              approved>>

botVars == <<bot_emergency_mode, last_health_check, loop_count, iteration>>

handlerVars ==
    <<emergency_mode_threshold, eh_emergency_mode, eh_safe_mode,
      consecutive_errors, error_history, overall_score, api_connection_score,
      network_stability_score, data_collection_score, trading_system_score,
      error_rate_score, eh_log>>

strategyVars == <<strategies>>

telegramVars == <<enabled, last_message_time, time_time, outbox>>

monitorVars == <<restart_count, bot_alive, launches>>

launcherVars == <<launcher_pc, launcher_restarts, should_restart, bot_process,
                  children, launcher_clock>>

fileVars == <<files, writing, saves, reader_saw>>

dbVars == <<db_file, pre_restore_backup, db_lock, db_threads>>

loopVars == <<is_running, main_pc, scan_log>>

cacheVars == <<data_cache, cache_now, queries, ohlcv_ret>>

resetVars == <<reset_log>>

extraVars == <<cacheVars, resetVars, no_restart>>

auxVars == <<telegramVars, monitorVars, launcherVars, fileVars, dbVars, loopVars,
             extraVars>>

coreVars == <<traderVars, riskVars, botVars, handlerVars, strategyVars, loopVars,
              extraVars>>

vars == <<coreVars, auxVars>>

(***************************************************************************)
(* The part of the state the Trader's methods rewrite, as one record, so   *)
(* that methods compose as the code calls them in sequence.                *)
(***************************************************************************)
Cur == [positions |-> positions, order_history |-> order_history,
        daily_trade_count |-> daily_trade_count, daily_loss |-> daily_loss,
        last_trade_time |-> last_trade_time, positions_file |-> positions_file,
        exchange_orders |-> exchange_orders, traded_at |-> traded_at,
        orders_created |-> orders_created,
        approved |-> approved,  \* signals the risk manager has approved
        ret |-> FALSE,      \* the value the method returns
        tried |-> {},       \* positions a SELL was submitted for in this call
        failed |-> {}]      \* positions whose submitted SELL failed in this call

Apply(S) ==
    /\ positions' = S.positions
    /\ order_history' = S.order_history
    /\ daily_trade_count' = S.daily_trade_count
    /\ daily_loss' = S.daily_loss
    /\ last_trade_time' = S.last_trade_time
    /\ positions_file' = S.positions_file
    /\ exchange_orders' = S.exchange_orders
    /\ traded_at' = S.traded_at
    /\ orders_created' = S.orders_created

\* uuid.uuid4(): an identifier no live position carries
uuid4(S) == CHOOSE n \in 1..(Cardinality(DOMAIN S.positions) + 1) :
                n \notin DOMAIN S.positions /\
                \A m \in 1..(n - 1) : m \in DOMAIN S.positions

HeldTickers(S) == {S.positions[p].ticker : p \in DOMAIN S.positions}

\* timedelta.seconds: the part of a non-negative difference below one day
Seconds(delta) == delta % DAY

\* self.last_trade_time.get(ticker, datetime.min)
LastTrade(S, ticker) ==
    IF ticker \in DOMAIN S.last_trade_time THEN S.last_trade_time[ticker]
    ELSE DatetimeMin

(***************************************************************************)
(* Trader._validate_trading_conditions                                     *)
(***************************************************************************)
\* the daily limit as it would be with > in place of >= at line 157
DailyLimitExceeded(S) ==
    S.daily_trade_count > DAILY_TRADE_LIMIT

\* if self.daily_trade_count >= 20
DailyLimitReached(S) ==
    S.daily_trade_count >= DAILY_TRADE_LIMIT

\* (datetime.now() - last_trade).seconds < 180
InCoolDown(S, ticker) ==
    Seconds(now - LastTrade(S, ticker)) < COOLDOWN

DuplicateTicker(S, signal) ==
    signal.action = "BUY" /\ signal.ticker \in HeldTickers(S)

\* the validation as it would be without the held-ticker check of line 147
ValidateIgnoringHeldTicker(S, signal) ==
    /\ ~(signal.confidence < MIN_CONFIDENCE)
    /\ ~(signal.action = "BUY" /\ Cardinality(DOMAIN S.positions) >= max_positions)
    /\ ~(signal.action = "BUY" /\ capital_per_position < min_order_amount)
    /\ ~(S.daily_trade_count >= DAILY_TRADE_LIMIT)
    /\ ~InCoolDown(S, signal.ticker)
    /\ ~(S.daily_loss < 0 - max_daily_loss * capital_per_position)

\* the validation as it would be without the position-count check of line 142
ValidateIgnoringPositionCount(S, signal) ==
    /\ ~(signal.confidence < MIN_CONFIDENCE)
    /\ ~DuplicateTicker(S, signal)
    /\ ~(signal.action = "BUY" /\ capital_per_position < min_order_amount)
    /\ ~DailyLimitReached(S)
    /\ ~InCoolDown(S, signal.ticker)
    /\ ~(S.daily_loss < 0 - max_daily_loss * capital_per_position)

_validate_trading_conditions(S, signal) ==
    /\ ~(signal.confidence < MIN_CONFIDENCE)
    /\ ~(signal.action = "BUY" /\ Cardinality(DOMAIN S.positions) >= max_positions)
    /\ ~DuplicateTicker(S, signal)
    /\ ~(signal.action = "BUY" /\ capital_per_position < min_order_amount)
    /\ ~DailyLimitReached(S)
    /\ ~InCoolDown(S, signal.ticker)
    /\ ~(S.daily_loss < 0 - max_daily_loss * capital_per_position)

(***************************************************************************)
(* Trader._save_positions: the whole map is rewritten to positions.json.   *)
(* Every field is written with a representation that reads back to the     *)
(* same value (json floats, isoformat datetimes).                          *)
(***************************************************************************)
_save_positions(S) == [S EXCEPT !.positions_file = S.positions]

(***************************************************************************)
(* Trader._create_position                                                 *)
(***************************************************************************)
NewPosition(order, signal) ==
    [ticker |-> order.ticker,
     entry_price |-> order.price,
     quantity |-> order.quantity,
     total_invested |-> order.total_amount,
     current_price |-> order.price,
     current_value |-> order.total_amount,
     unrealized_pnl |-> 0,
     stop_loss |-> signal.stop_loss,
     take_profit |-> signal.take_profit,
     entry_time |-> now]

_create_position(S, order, signal) ==
    _save_positions([S EXCEPT
        !.positions = S.positions @@ (uuid4(S) :> NewPosition(order, signal))])

(***************************************************************************)
(* Trader._remove_position                                                 *)
(***************************************************************************)
_remove_position(S, pid) ==
    IF pid \in DOMAIN S.positions
    THEN _save_positions([S EXCEPT !.positions =
             [q \in DOMAIN S.positions \ {pid} |-> S.positions[q]]])
    ELSE S

(***************************************************************************)
(* An Order as the history keeps it.                                       *)
(***************************************************************************)
OrderRec(type, ticker, status) ==
    [order_type |-> type, status |-> status]

\* self.order_history.append(order)
RecordOrder(S, type, ticker, status) ==
    [S EXCEPT !.order_history = Append(S.order_history, OrderRec(type, ticker, status))]

\* self.upbit.buy_market_order / sell_market_order reaches the exchange;
\* validated: the signal behind the order is one validate_signal approved
Submit(S, side, validated, ticker, amount, krw) ==
    [S EXCEPT !.exchange_orders =
        Append(S.exchange_orders,
               [side |-> side, validated |-> validated, ticker |-> ticker,
                amount |-> amount,    \* KRW to spend (BUY), quantity to sell (SELL)
                krw |-> krw])]        \* the KRW balance reported before the order

\* the exchange fills the order it has received
Filled(S, ticker) ==
    [S EXCEPT !.traded_at = (ticker :> now) @@ S.traded_at]

(***************************************************************************)
(* Trader._execute_buy_order.  env: the price quoted, the KRW balance      *)
(* reported and whether the exchange answers with an order uuid.           *)
(***************************************************************************)
BuyFilled(S, signal, env) ==
    LET order == [ticker |-> signal.ticker, price |-> env.price,
                  quantity |-> capital_per_position \div env.price,
                  total_amount |-> capital_per_position]
        S1 == RecordOrder(Filled(S, signal.ticker), "BUY", signal.ticker, "FILLED")
        S2 == _create_position(S1, order, signal)
    IN [S2 EXCEPT !.daily_trade_count = S2.daily_trade_count + 1,
                  !.last_trade_time = (signal.ticker :> now) @@ S2.last_trade_time,
                  !.ret = TRUE]

BuyFailed(S, signal) ==
    [RecordOrder(S, "BUY", signal.ticker, "FAILED") EXCEPT !.ret = FALSE]

_execute_buy_order(S, signal, env) ==
    IF env.price = None THEN [S EXCEPT !.ret = FALSE]
    ELSE IF env.krw < capital_per_position THEN [S EXCEPT !.ret = FALSE]
    ELSE LET S1 == Submit([S EXCEPT !.orders_created = S.orders_created + 1],
                          "BUY", signal \in S.approved, signal.ticker,
                          capital_per_position, env.krw)
         IN IF env.result THEN BuyFilled(S1, signal, env)
            ELSE BuyFailed(S1, signal)

(***************************************************************************)
(* Trader._close_position.  env: the coin balance reported, the price      *)
(* quoted and whether the exchange answers the SELL with an order uuid.    *)
(* With self.upbit = None the call self.upbit.sell_market_order raises     *)
(* AttributeError after the Order object was built: the except clause      *)
(* returns False and the object is dropped.                                *)
(***************************************************************************)
SellFilled(S, pid, env) ==
    LET position == S.positions[pid]
        total_amount == env.price * env.balance
        profit_amount == total_amount - position.total_invested
        \* profit_ratio * capital_per_position, exact when this divides
        profit == (profit_amount * capital_per_position) \div position.total_invested
        S1 == RecordOrder(Filled(S, position.ticker), "SELL", position.ticker, "FILLED")
        S2 == [S1 EXCEPT !.daily_trade_count = S1.daily_trade_count + 1,
                         !.daily_loss = S1.daily_loss + profit,
                         !.last_trade_time = (position.ticker :> now) @@ S1.last_trade_time]
    IN [_remove_position(S2, pid) EXCEPT !.ret = TRUE]

\* a failed SELL handled as a filled one would be: the position is dropped
SellFailedDropsPosition(S, pid) ==
    [_remove_position(RecordOrder(S, "SELL", S.positions[pid].ticker, "FAILED"), pid)
        EXCEPT !.failed = S.failed \cup {pid}, !.ret = FALSE]

SellFailed(S, pid) ==
    [RecordOrder(S, "SELL", S.positions[pid].ticker, "FAILED") EXCEPT
        !.failed = S.failed \cup {pid}, !.ret = FALSE]

_close_position(S, pid, env) ==
    IF env.balance <= 0 THEN [_remove_position(S, pid) EXCEPT !.ret = FALSE]
    ELSE IF env.price = None THEN [S EXCEPT !.ret = FALSE]
    ELSE LET S1 == [S EXCEPT !.orders_created = S.orders_created + 1]
         IN IF ~upbit THEN [S1 EXCEPT !.ret = FALSE]
            ELSE LET S2 == [Submit(S1, "SELL", FALSE, S.positions[pid].ticker,
                                   env.balance, env.krw) EXCEPT
                                !.tried = S1.tried \cup {pid}]
                 IN IF env.result THEN SellFilled(S2, pid, env)
                    ELSE SellFailed(S2, pid)

\* the smallest of a non-empty set of position ids: dicts iterate in insertion order
First(ids) == CHOOSE p \in ids : \A q \in ids : p <= q

\* Trader._find_position_by_ticker: the first position with that ticker, or none
_find_position_by_ticker(S, ticker) ==
    {p \in DOMAIN S.positions : S.positions[p].ticker = ticker}

(***************************************************************************)
(* Trader._execute_sell_order                                              *)
(***************************************************************************)
_execute_sell_order(S, signal, env) ==
    LET found == _find_position_by_ticker(S, signal.ticker)
    IN IF found = {} THEN [S EXCEPT !.ret = FALSE]
       ELSE _close_position(S, First(found), env)

(***************************************************************************)
(* Trader.execute_signal                                                   *)
(***************************************************************************)
execute_signal(S, signal, env) ==
    IF ~upbit THEN [S EXCEPT !.ret = FALSE]
    ELSE IF ~_validate_trading_conditions(S, signal) THEN [S EXCEPT !.ret = FALSE]
    ELSE IF signal.action = "BUY" THEN _execute_buy_order(S, signal, env)
    ELSE IF signal.action = "SELL" THEN _execute_sell_order(S, signal, env)
    ELSE [S EXCEPT !.ret = FALSE]

(***************************************************************************)
(* Trader.update_positions.  prices: ticker -> price, None where the bulk  *)
(* query has no price for the ticker.                                      *)
(***************************************************************************)
Refreshed(position, price) ==
    IF price = None THEN position
    ELSE [position EXCEPT
            !.current_price = price,
            !.current_value = position.quantity * price,
            !.unrealized_pnl = position.quantity * price - position.total_invested]

update_positions(S, prices) ==
    IF DOMAIN S.positions = {} THEN S
    ELSE _save_positions([S EXCEPT !.positions =
             [p \in DOMAIN S.positions |->
                 Refreshed(S.positions[p], prices[S.positions[p].ticker])]])

(***************************************************************************)
(* Trader._should_close_position: the reason, or "NONE".                   *)
(* unrealized_pnl_ratio = unrealized_pnl / total_invested is compared by   *)
(* cross-multiplication.                                                   *)
(***************************************************************************)
Holding(position) == now - position.entry_time

LossBelow(position, pct) ==
    position.unrealized_pnl * 100 < 0 - pct * position.total_invested

LossAtOrBelow(position, pct) ==
    position.unrealized_pnl * 100 <= 0 - pct * position.total_invested

\* the checks with the 72 h and the -10 % checks moved before the 24 h check
ShouldCloseForceTimeFirst(position) ==
    IF position.current_price <= position.stop_loss THEN "STOP_LOSS"
    ELSE IF position.current_price >= position.take_profit THEN "TAKE_PROFIT"
    ELSE IF Holding(position) >= HOLD_FORCE THEN "FORCE_TIME"
    ELSE IF LossAtOrBelow(position, EMERGENCY_LOSS_PCT) THEN "EMERGENCY"
    ELSE IF Holding(position) >= HOLD_TIME_BASED /\ LossBelow(position, TIME_LOSS_PCT)
         THEN "TIME_BASED"
    ELSE "NONE"

_should_close_position(position) ==
    IF position.current_price <= position.stop_loss THEN "STOP_LOSS"
    ELSE IF position.current_price >= position.take_profit THEN "TAKE_PROFIT"
    ELSE IF Holding(position) >= HOLD_TIME_BASED /\ LossBelow(position, TIME_LOSS_PCT)
         THEN "TIME_BASED"
    ELSE IF Holding(position) >= HOLD_FORCE THEN "FORCE_TIME"
    ELSE IF LossAtOrBelow(position, EMERGENCY_LOSS_PCT) THEN "EMERGENCY"
    ELSE "NONE"

(***************************************************************************)
(* Closing a list of positions one after the other, in dict order.         *)
(* envs: ticker -> what the exchange answers while that ticker is closed.  *)
(***************************************************************************)
RECURSIVE CloseEach(_, _, _, _)
CloseEach(S, ids, tickerOf, envs) ==
    IF ids = {} THEN S
    ELSE LET pid == First(ids)
         IN CloseEach(_close_position(S, pid, envs[tickerOf[pid]]),
                      ids \ {pid}, tickerOf, envs)

TickerOf(S) == [p \in DOMAIN S.positions |-> S.positions[p].ticker]

(***************************************************************************)
(* Trader.check_exit_conditions                                            *)
(***************************************************************************)
\* the positions to close as they would be if the daily trade limit applied
PositionsToCloseWithinDailyLimit(S) ==
    IF DailyLimitReached(S) THEN {}
    ELSE {p \in DOMAIN S.positions : _should_close_position(S.positions[p]) # "NONE"}

PositionsToClose(S) ==
    {p \in DOMAIN S.positions : _should_close_position(S.positions[p]) # "NONE"}

check_exit_conditions(S, envs) ==
    CloseEach(S, PositionsToClose(S), TickerOf(S), envs)

(***************************************************************************)
(* Trader.emergency_close_all_positions: true iff every close returned     *)
(* true.                                                                   *)
(***************************************************************************)
RECURSIVE CloseCounting(_, _, _, _, _)
CloseCounting(S, ids, tickerOf, envs, n) ==
    IF ids = {} THEN [S EXCEPT !.ret = (n = 0)]
    ELSE LET pid == First(ids)
             S1 == _close_position(S, pid, envs[tickerOf[pid]])
         IN CloseCounting(S1, ids \ {pid}, tickerOf, envs,
                          IF S1.ret THEN n - 1 ELSE n)

emergency_close_all_positions(S, envs) ==
    IF DOMAIN S.positions = {} THEN [S EXCEPT !.ret = TRUE]
    ELSE CloseCounting(S, DOMAIN S.positions, TickerOf(S), envs,
                       Cardinality(DOMAIN S.positions))

(***************************************************************************)
(* Trader.force_sync_balances.  balances: ticker -> balance reported       *)
(* (0 where the exchange lists none).  A corrected quantity is written to  *)
(* the in-memory position only; _save_positions runs only inside           *)
(* _remove_position.                                                       *)
(***************************************************************************)
SyncQuantity(S, pid, actual) ==
    IF S.positions[pid].quantity # actual
    THEN [S EXCEPT !.positions[pid].quantity = actual,
                   !.positions[pid].current_value =
                        S.positions[pid].current_price * actual]
    ELSE S

SyncOne(S, pid, actual) ==
    IF actual <= 0 THEN _remove_position(S, pid)
    ELSE SyncQuantity(S, pid, actual)

RECURSIVE SyncEach(_, _, _)
SyncEach(S, ids, balances) ==
    IF ids = {} THEN S
    ELSE LET pid == First(ids)
         IN SyncEach(SyncOne(S, pid, balances[S.positions[pid].ticker]),
                     ids \ {pid}, balances)

force_sync_balances(S, balances) == SyncEach(S, DOMAIN S.positions, balances)

(***************************************************************************)
(* Trader.reset_daily_limits                                               *)
(***************************************************************************)
Empty == [x \in {} |-> 0]

trader_reset_daily_limits(S) ==
    [S EXCEPT !.daily_trade_count = 0, !.daily_loss = 0, !.last_trade_time = Empty]

(***************************************************************************)
(* Trader.cancel_all_pending_orders: active_orders is created empty and    *)
(* nothing ever adds to it, so the method returns True at once.            *)
(***************************************************************************)
cancel_all_pending_orders(S) == [S EXCEPT !.ret = TRUE]

(***************************************************************************)
(* Trader._load_positions: every record of the file is read back.          *)
(***************************************************************************)
_load_positions(file) == file

\* positions.json as an earlier run of the bot may have left it
SavedPosition ==
    [ticker |-> "KRW-BTC", entry_price |-> 100, quantity |-> 100,
     total_invested |-> capital_per_position, current_price |-> 100,
     current_value |-> capital_per_position, unrealized_pnl |-> 0,
     stop_loss |-> 85, take_profit |-> 110, entry_time |-> 0]

PositionFiles == {Empty, 1 :> SavedPosition}

(***************************************************************************)
(* What the exchange may answer.                                           *)
(***************************************************************************)
\* A BUY: no price; or a price and too little KRW; or the order is sent.
BuyEnvs ==
    {[price |-> None, krw |-> 0, balance |-> 0, result |-> FALSE]}
    \cup [price : EntryPrices, krw : {k \in KrwBalances : k < capital_per_position},
          balance : {0}, result : {FALSE}]
    \cup [price : EntryPrices, krw : {k \in KrwBalances : k >= capital_per_position},
          balance : {0}, result : BOOLEAN]

\* A close: no balance; or a balance and no price; or the order is sent.
CloseEnvs ==
    {[price |-> None, krw |-> 0, balance |-> 0, result |-> FALSE]}
    \cup [price : {None}, krw : {0}, balance : Balances \ {0}, result : {FALSE}]
    \cup [price : SellPrices, krw : {0}, balance : Balances \ {0}, result : BOOLEAN]

SignalEnvs(signal) ==
    IF signal.action = "BUY" THEN BuyEnvs
    ELSE IF signal.action = "SELL" THEN CloseEnvs
    ELSE {[price |-> None, krw |-> 0, balance |-> 0, result |-> FALSE]}

\* the answers for the tickers a call asks about; a fixed one for the others
EnvsFor(tickers, answers, other) ==
    {[t \in Tickers |-> IF t \in tickers THEN g[t] ELSE other] :
        g \in [tickers -> answers]}

(***************************************************************************)
(* RiskManager (src/core/risk_manager.py).  Its methods are operators over *)
(* a record R of the object's fields; ret is the value returned.           *)
(***************************************************************************)
MAX_TOTAL_EXPOSURE_PCT == 95     \* self.max_total_exposure = 0.95
MAX_VOLATILITY_PCT == 15         \* self.max_volatility_threshold = 0.15
RISK_MIN_CONFIDENCE == 70        \* signal.confidence < 0.7 is refused
MAX_SPREAD_PCT == 2              \* spread_risk > 0.02 is refused
DEFAULT_CAPITAL == 160000        \* daily_start_capital when the balance query raises
FAMILY_LIMIT == 2                \* positions of one coin family

btc_related == {"KRW-BTC", "KRW-BCH", "KRW-BSV"}
eth_related == {"KRW-ETH", "KRW-ETC", "KRW-EOS"}

\* what the balance queries answer: the total capital, or an exception
Capitals == {[ok |-> FALSE, total |-> 0], [ok |-> TRUE, total |-> 0],
             [ok |-> TRUE, total |-> capital_per_position],
             [ok |-> TRUE, total |-> 2 * capital_per_position],
             [ok |-> TRUE, total |-> DEFAULT_CAPITAL]}
Volatilities == {5, 20}          \* daily volatility, percent
Spreads == {1, 3}                \* spread ratio, percent
RiskEnvs == [capital : Capitals, volatility : Volatilities, spread : Spreads]

RCur ==
    [emergency_mode |-> rm_emergency_mode,
     risk_override |-> risk_override,
     risk_alerts |-> risk_alerts,
     daily_start_capital |-> daily_start_capital,
     ret |-> FALSE]

RApply(R) ==
    /\ rm_emergency_mode' = R.emergency_mode
    /\ risk_override' = R.risk_override
    /\ risk_alerts' = R.risk_alerts
    /\ daily_start_capital' = R.daily_start_capital

_initialize_daily_capital(R, capital) ==
    [R EXCEPT !.daily_start_capital =
        IF capital.ok THEN capital.total ELSE DEFAULT_CAPITAL]

_get_total_capital(R, capital) ==
    IF capital.ok THEN capital.total ELSE R.daily_start_capital

\* the daily profit ratio, in percent
_calculate_daily_pnl_ratio(R, capital) ==
    IF R.daily_start_capital <= 0 THEN 0
    ELSE ((_get_total_capital(R, capital) - R.daily_start_capital) * 100)
            \div R.daily_start_capital

RECURSIVE SumValues(_, _)
SumValues(current_positions, ids) ==
    IF ids = {} THEN 0
    ELSE LET p == CHOOSE q \in ids : TRUE
         IN current_positions[p].current_value
              + SumValues(current_positions, ids \ {p})

_calculate_current_exposure(current_positions) ==
    SumValues(current_positions, DOMAIN current_positions)

InFamily(current_positions, family) ==
    {p \in DOMAIN current_positions : current_positions[p].ticker \in family}

\* TRUE when a concentration risk is reported
_check_concentration_risk(ticker, current_positions) ==
    \/ \E p \in DOMAIN current_positions : current_positions[p].ticker = ticker
    \/ /\ ticker \in btc_related
       /\ Cardinality(InFamily(current_positions, btc_related)) >= FAMILY_LIMIT
    \/ /\ ticker \in eth_related
       /\ Cardinality(InFamily(current_positions, eth_related)) >= FAMILY_LIMIT

\* check 4 of validate_signal, by cross-multiplication:
\* (current_exposure + position_size) / daily_start_capital > max_total_exposure
ExposureAtOrOverLimit(R, current_positions) ==
    (_calculate_current_exposure(current_positions) + capital_per_position) * 100
        >= MAX_TOTAL_EXPOSURE_PCT * R.daily_start_capital

ExposureOverLimit(R, current_positions) ==
    (_calculate_current_exposure(current_positions) + capital_per_position) * 100
        > MAX_TOTAL_EXPOSURE_PCT * R.daily_start_capital

\* check 7 of validate_signal: signal.confidence < 0.7
ConfidenceAtOrBelowMinimum(signal) ==
    signal.confidence <= RISK_MIN_CONFIDENCE

ConfidenceBelowMinimum(signal) ==
    signal.confidence < RISK_MIN_CONFIDENCE

validate_signal(R, signal, current_positions, env) ==
    [R EXCEPT !.ret =
        IF signal.action # "BUY" THEN TRUE
        ELSE IF R.emergency_mode THEN FALSE
        ELSE IF _calculate_daily_pnl_ratio(R, env.capital) <= 0 - max_daily_loss * 100
            THEN FALSE
        ELSE IF Cardinality(DOMAIN current_positions) >= max_positions THEN FALSE
        \* division by a zero daily_start_capital raises: refused
        ELSE IF R.daily_start_capital = 0 THEN FALSE
        ELSE IF ExposureOverLimit(R, current_positions) THEN FALSE
        ELSE IF env.volatility > MAX_VOLATILITY_PCT THEN FALSE
        ELSE IF _check_concentration_risk(signal.ticker, current_positions)
            THEN FALSE
        ELSE IF ConfidenceBelowMinimum(signal) THEN FALSE
        ELSE IF env.spread > MAX_SPREAD_PCT THEN FALSE
        ELSE TRUE]

enter_emergency_mode(R) ==
    [R EXCEPT !.emergency_mode = TRUE,
              !.risk_alerts = Append(R.risk_alerts, "EMERGENCY")]

exit_emergency_mode(R) ==
    [R EXCEPT !.emergency_mode = FALSE]

ResetIgnoringOverride(R, capital) ==
    LET R1 == [_initialize_daily_capital(R, capital) EXCEPT !.risk_alerts = <<>>]
    IN IF R1.emergency_mode THEN exit_emergency_mode(R1) ELSE R1

risk_reset_daily_limits(R, capital) ==
    LET R1 == [_initialize_daily_capital(R, capital) EXCEPT !.risk_alerts = <<>>]
    IN IF R1.emergency_mode /\ ~R1.risk_override
       THEN exit_emergency_mode(R1)
       ELSE R1

override_risk_controls(R) ==
    [R EXCEPT !.risk_override = TRUE]

restore_risk_controls(R) ==
    [R EXCEPT !.risk_override = FALSE]

\* RiskManager.__init__
RiskInit(capital) ==
    /\ rm_emergency_mode = FALSE
    /\ risk_override = FALSE
    /\ risk_alerts = <<>>
    /\ daily_start_capital =
         IF capital.ok THEN capital.total ELSE DEFAULT_CAPITAL
    /\ approved = {}

(***************************************************************************)
(* EnhancedErrorHandler (src/utils/enhanced_error_handler.py).  Its        *)
(* methods are operators over a record H of the object's fields.  Scores   *)
(* are whole numbers except overall_score, which is counted in tenths.     *)
(***************************************************************************)
max_error_history == 1000        \* config["max_error_history"]
error_rate_per_hour == 20        \* config["alert_thresholds"]["error_rate_per_hour"]
DEFAULT_EMERGENCY_THRESHOLD == 10    \* config["emergency_mode_threshold"]
HOUR == 60
RETRY_WINDOW == 5                \* background retries: errors of the last 5 minutes
LAST_FOR_SCORES == 20            \* error_history[-20:]
LAST_FOR_RETRY == 10             \* error_history[-10:]
MAX_RETRIES == 3                 \* ErrorEvent.max_retries
CRITICAL_AFTER == 5              \* consecutive_errors > 5: CRITICAL
HIGH_AFTER == 3                  \* consecutive_errors > 3: HIGH
MEDIUM_AFTER == 1                \* consecutive_errors > 1: MEDIUM
RATE_PENALTY == 5                \* error_rate_score: 5 points an error
RATE_PENALTY_MAX == 30
DATA_PENALTY == 15
TRADING_PENALTY == 20
MIN_OVERALL == 20 * 10           \* overall_score < 20, in tenths
FULL_SCORE == 100

\* config["emergency_mode_threshold"]: the default, or the value of a
\* configuration file
EmergencyThresholds == {2, DEFAULT_EMERGENCY_THRESHOLD}

\* the errors reported to the handler, each with the category its caller
\* names and the phrases of its message the severity rules look for
Errors ==
    {[type |-> "OperationalError", message |-> {"database locked"},
      category |-> "DATABASE"],
     [type |-> "Exception", message |-> {}, category |-> "TRADING"]}

\* what the two reachability probes of a monitoring cycle find
ApiProbes == {100, 0}            \* status 200; the request raises
NetworkProbes == {100, 0}
WaitSteps == {5, 60}            \* minutes between two calls of the handler
Probes == [api : ApiProbes, network : NetworkProbes, retry : BOOLEAN]

severity_penalties ==
    [LOW |-> 10, MEDIUM |-> 30, HIGH |-> 80, CRITICAL |-> 150]   \* tenths

\* max_attempts of the recovery strategy chosen for a category
StrategyAttempts ==
    [NETWORK |-> 5, API |-> 4, DATA_COLLECTION |-> 3, DATABASE |-> 3,
     SYSTEM |-> 2, TRADING |-> 4, UNKNOWN |-> 5]

Max(a, b) == IF a > b THEN a ELSE b
Min(a, b) == IF a < b THEN a ELSE b

HCur ==
    [emergency_mode |-> eh_emergency_mode,
     safe_mode |-> eh_safe_mode,
     consecutive_errors |-> consecutive_errors,
     error_history |-> error_history,
     overall_score |-> overall_score,
     api_connection_score |-> api_connection_score,
     network_stability_score |-> network_stability_score,
     data_collection_score |-> data_collection_score,
     trading_system_score |-> trading_system_score,
     error_rate_score |-> error_rate_score,
     log |-> eh_log,
     ret |-> FALSE]

HApply(H) ==
    /\ eh_emergency_mode' = H.emergency_mode
    /\ eh_safe_mode' = H.safe_mode
    /\ consecutive_errors' = H.consecutive_errors
    /\ error_history' = H.error_history
    /\ overall_score' = H.overall_score
    /\ api_connection_score' = H.api_connection_score
    /\ network_stability_score' = H.network_stability_score
    /\ data_collection_score' = H.data_collection_score
    /\ trading_system_score' = H.trading_system_score
    /\ error_rate_score' = H.error_rate_score
    /\ eh_log' = H.log

\* the counter condition as it would be with >= in place of > at line 483
CounterCriticalFromFive(H) ==
    H.consecutive_errors >= CRITICAL_AFTER

\* self.system_health.consecutive_errors > 5
CounterCritical(H) ==
    H.consecutive_errors > CRITICAL_AFTER

_assess_severity(H, error) ==
    IF \/ error.type \in {"OutOfMemoryError", "SystemError"}
       \/ "insufficient funds" \in error.message
       \/ ("api key" \in error.message /\ "invalid" \in error.message)
       \/ "database locked" \in error.message
       \/ CounterCritical(H)
    THEN "CRITICAL"
    ELSE IF \/ error.category = "TRADING"
            \/ "429" \in error.message
            \/ "authentication" \in error.message
            \/ H.consecutive_errors > HIGH_AFTER
    THEN "HIGH"
    ELSE IF \/ error.category \in {"API", "DATABASE"}
            \/ "timeout" \in error.message
            \/ H.consecutive_errors > MEDIUM_AFTER
    THEN "MEDIUM"
    ELSE "LOW"

_cleanup_old_errors(H) ==
    IF Len(H.error_history) > max_error_history
    THEN [H EXCEPT !.error_history =
            SubSeq(@, Len(@) - max_error_history + 1, Len(@))]
    ELSE H

\* the recovery of the error at index i ends as the environment decides
_attempt_recovery(H, i, success) ==
    [H EXCEPT !.error_history[i].retry_count =
                  IF success THEN 1
                  ELSE StrategyAttempts[H.error_history[i].category],
              !.consecutive_errors = IF success THEN 0 ELSE @,
              !.ret = success]

_activate_emergency_mode(H) ==
    [H EXCEPT !.emergency_mode = TRUE, !.safe_mode = TRUE,
              !.log = "ACTIVATED"]

_deactivate_emergency_mode(H) ==
    [H EXCEPT !.emergency_mode = FALSE, !.safe_mode = FALSE,
              !.log = "DEACTIVATED"]

\* the trigger as it would be if one CRITICAL error sufficed
TriggerOnEveryCritical(H) ==
    _activate_emergency_mode([H EXCEPT !.consecutive_errors = @ + 1])

_check_emergency_mode_trigger(H) ==
    LET H1 == [H EXCEPT !.consecutive_errors = @ + 1]
    IN IF H1.consecutive_errors >= emergency_mode_threshold
       THEN _activate_emergency_mode(H1)
       ELSE H1

_update_health_after_error(H, i) ==
    LET penalty == severity_penalties[H.error_history[i].severity]
        lowered == Max(0, H.overall_score - penalty)
    IN [H EXCEPT !.overall_score =
          IF H.error_history[i].recovery_successful
          THEN Min(FULL_SCORE * 10, lowered + penalty \div 2)
          ELSE lowered]

handle_error(H, error, recovered) ==
    LET severity == _assess_severity(H, error)
        event == [category |-> error.category, severity |-> severity,
                  timestamp |-> now, recovery_successful |-> FALSE,
                  retry_count |-> 0]
        H1 == _cleanup_old_errors(
                  [H EXCEPT !.error_history = Append(@, event)])
        i == Len(H1.error_history)
        H2 == IF severity \in {"MEDIUM", "HIGH"}
              THEN [_attempt_recovery(H1, i, recovered) EXCEPT
                        !.error_history[i].recovery_successful = recovered]
              ELSE H1
        H3 == _update_health_after_error(H2, i)
    IN IF severity = "CRITICAL" THEN _check_emergency_mode_trigger(H3)
       ELSE H3

\* the indices of the errors of the last `minutes` minutes
Within(H, minutes) ==
    {i \in 1..Len(H.error_history) :
        H.error_history[i].timestamp > now - minutes}

\* the indices of error_history[-n:]
LastN(H, n) ==
    {i \in 1..Len(H.error_history) : i > Len(H.error_history) - n}

_update_individual_health_scores(H, probe) ==
    LET data_errors == Cardinality({i \in LastN(H, LAST_FOR_SCORES) :
            H.error_history[i].category = "DATA_COLLECTION"})
        trading_errors == Cardinality({i \in LastN(H, LAST_FOR_SCORES) :
            H.error_history[i].category = "TRADING"})
    IN [H EXCEPT
          !.api_connection_score = probe.api,
          !.network_stability_score = probe.network,
          !.data_collection_score =
              Max(0, FULL_SCORE - data_errors * DATA_PENALTY),
          !.trading_system_score =
              Max(0, FULL_SCORE - trading_errors * TRADING_PENALTY)]

_update_system_health(H, probe) ==
    LET recent_errors == Cardinality(Within(H, HOUR))
        H1 == IF recent_errors > 0
              THEN [H EXCEPT !.error_rate_score =
                      Max(0, FULL_SCORE
                               - Min(recent_errors * RATE_PENALTY, RATE_PENALTY_MAX))]
              ELSE H
        H2 == _update_individual_health_scores(H1, probe)
        \* the mean of the five scores, in tenths
        mean == (H2.api_connection_score + H2.data_collection_score
                   + H2.trading_system_score + H2.network_stability_score
                   + H2.error_rate_score) * 2
    IN [H2 EXCEPT !.overall_score = Max(0, Min(FULL_SCORE * 10, mean))]

CheckEmergencyLatched(H) ==
    IF (\/ H.consecutive_errors >= emergency_mode_threshold
        \/ H.overall_score < MIN_OVERALL
        \/ Cardinality({i \in Within(H, HOUR) :
              H.error_history[i].severity \in {"HIGH", "CRITICAL"}})
             > error_rate_per_hour
        \/ H.api_connection_score = 0) /\ ~H.emergency_mode
    THEN _activate_emergency_mode(H)
    ELSE H

_check_emergency_conditions(H) ==
    LET should_activate_emergency ==
            \/ H.consecutive_errors >= emergency_mode_threshold
            \/ H.overall_score < MIN_OVERALL
            \/ Cardinality({i \in Within(H, HOUR) :
                  H.error_history[i].severity \in {"HIGH", "CRITICAL"}})
                 > error_rate_per_hour
            \/ H.api_connection_score = 0
    IN IF should_activate_emergency /\ ~H.emergency_mode
       THEN _activate_emergency_mode(H)
       ELSE IF ~should_activate_emergency /\ H.emergency_mode
       THEN _deactivate_emergency_mode(H)
       ELSE H

\* the errors a background retry may pick, oldest first
RecentFailures(H) ==
    {i \in LastN(H, LAST_FOR_RETRY) :
        /\ ~H.error_history[i].recovery_successful
        /\ H.error_history[i].severity \in {"MEDIUM", "HIGH"}
        /\ H.error_history[i].retry_count < MAX_RETRIES
        /\ i \in Within(H, RETRY_WINDOW)}

RECURSIVE RetryEach(_, _, _)
RetryEach(H, ids, success) ==
    IF ids = {} THEN H
    ELSE LET i == First(ids)
             H1 == _attempt_recovery(H, i, success)
         IN IF success THEN H1 ELSE RetryEach(H1, ids \ {i}, success)

_attempt_auto_recovery(H, success) ==
    IF H.emergency_mode THEN H
    ELSE RetryEach(H, RecentFailures(H), success)

\* one pass through the body of monitoring_loop
monitoring_loop(H, probe) ==
    _attempt_auto_recovery(
        _check_emergency_conditions(_update_system_health(H, probe)),
        probe.retry)

\* force_recovery_attempt for the error at index i of the history
force_recovery_attempt(H, i, success) ==
    IF i \notin 1..Len(H.error_history) THEN [H EXCEPT !.ret = FALSE]
    ELSE _attempt_recovery(H, i, success)

reset_emergency_mode(H) ==
    [H EXCEPT !.emergency_mode = FALSE, !.safe_mode = FALSE,
              !.consecutive_errors = 0, !.log = "RESET"]

\* EnhancedErrorHandler.__init__
HandlerInit(threshold) ==
    /\ emergency_mode_threshold = threshold
    /\ eh_emergency_mode = FALSE
    /\ eh_safe_mode = FALSE
    /\ consecutive_errors = 0
    /\ error_history = <<>>
    /\ overall_score = FULL_SCORE * 10
    /\ api_connection_score = FULL_SCORE
    /\ network_stability_score = FULL_SCORE
    /\ data_collection_score = FULL_SCORE
    /\ trading_system_score = FULL_SCORE
    /\ error_rate_score = FULL_SCORE
    /\ eh_log = "NONE"

(***************************************************************************)
(* StrategyEngine (src/core/strategy_engine.py).  Its methods are           *)
(* operators over the registry, a function from strategy ids to strategy    *)
(* records.  Profit ratios are counted in percent, stop-loss and profit     *)
(* target in thousandths; a performance score is the fraction num / den.    *)
(***************************************************************************)
CONSERVATIVE_STREAK == 3         \* failure_streak >= 3: conservative adjustment
AGGRESSIVE_STREAK == 5           \* success_streak >= 5: aggressive adjustment
DEACTIVATE_TRADES == 10          \* total_trades >= 10
DEACTIVATE_STREAK == 5           \* failure_streak >= 5
FULL_WEIGHT_TRADES == 20         \* trade_weight = min(total_trades / 20, 1.0)
CLEANUP_TRADES == 5              \* total_trades >= 5
CLEANUP_STREAK == 5              \* failure_streak >= 5
CLEANUP_UNUSED == DAY            \* hours_unused > 24
MIN_STRATEGIES == 2              \* strategies left by a cleanup

TemplateOrder == <<"MOMENTUM", "TREND", "MEAN_REVERSION", "SCALPING">>

strategy_templates ==
    [MOMENTUM |-> [min_score |-> 55, profit_target |-> 40, stop_loss |-> 20],
     TREND |-> [min_score |-> 45, profit_target |-> 60, stop_loss |-> 30],
     MEAN_REVERSION |-> [min_score |-> 45, profit_target |-> 40, stop_loss |-> 20],
     SCALPING |-> [min_score |-> 45, profit_target |-> 30, stop_loss |-> 15]]

StrategyIds == 1..Len(TemplateOrder)

\* profit_ratio of a closed trade, percent
Profits == {0 - 5, 5}

\* performance_score = 0.0
ZeroScore == [num |-> 0, den |-> 10]

\* score < tenths / 10
ScoreBelow(score, tenths) == score.num < tenths * (score.den \div 10)

\* TradingStrategy(...) as _create_initial_strategies builds it
NewStrategy(strategy_type) ==
    [strategy_type |-> strategy_type,
     min_score |-> strategy_templates[strategy_type].min_score,
     profit_target |-> strategy_templates[strategy_type].profit_target,
     stop_loss |-> strategy_templates[strategy_type].stop_loss,
     total_trades |-> 0, winning_trades |-> 0, total_profit |-> 0,
     max_drawdown |-> 0, performance_score |-> ZeroScore,
     last_used |-> now, is_active |-> TRUE, adaptation_count |-> 0,
     success_streak |-> 0, failure_streak |-> 0]

_create_initial_strategies ==
    [id \in StrategyIds |-> NewStrategy(TemplateOrder[id])]

(***************************************************************************)
(* StrategyEngine._calculate_performance_score:                            *)
(*   win_rate * (1 + avg_profit) * min(total_trades / 20, 1)               *)
(*       * streak_factor * max(0, 1 + max_drawdown), limited to 0..2,      *)
(* with win_rate = winning_trades / total_trades and                       *)
(* avg_profit = total_profit / total_trades, as the fraction num / den.    *)
(***************************************************************************)
_calculate_performance_score(strategy) ==
    IF strategy.total_trades = 0 THEN ZeroScore
    ELSE LET n == strategy.total_trades
             streak_factor == IF strategy.success_streak >= 3 THEN 11
                              ELSE IF strategy.failure_streak >= 3 THEN 9
                              ELSE 10
             drawdown_penalty == Max(0, 100 + strategy.max_drawdown)
             den == 100 * n * n * FULL_WEIGHT_TRADES * 10 * 100
             num == strategy.winning_trades * (100 * n + strategy.total_profit)
                      * Min(n, FULL_WEIGHT_TRADES) * streak_factor
                      * drawdown_penalty
         IN [num |-> Max(0, Min(num, 2 * den)), den |-> den]

_adjust_strategy_parameters(strategy, direction) ==
    IF direction = "conservative"
    THEN [strategy EXCEPT !.min_score = Min(95, @ + 5),
                          !.stop_loss = Min(120, @ + 10)]
    ELSE IF direction = "aggressive"
    THEN [strategy EXCEPT !.min_score = Max(65, @ - 3),
                          !.profit_target = Min(250, @ + 20)]
    ELSE strategy

\* the deactivation test as it would be with a failure streak of 3
PoorAfterThreeFailures(strategy) ==
    /\ strategy.total_trades >= DEACTIVATE_TRADES
    /\ ScoreBelow(strategy.performance_score, 3)
    /\ strategy.failure_streak >= CONSERVATIVE_STREAK

\* total_trades >= 10 and performance_score < 0.3 and failure_streak >= 5
Poor(strategy) ==
    /\ strategy.total_trades >= DEACTIVATE_TRADES
    /\ ScoreBelow(strategy.performance_score, 3)
    /\ strategy.failure_streak >= DEACTIVATE_STREAK

_adapt_strategy(strategy) ==
    LET counted == [strategy EXCEPT !.adaptation_count = @ + 1]
        adjusted ==
            IF counted.failure_streak >= CONSERVATIVE_STREAK
            THEN _adjust_strategy_parameters(counted, "conservative")
            ELSE IF counted.success_streak >= AGGRESSIVE_STREAK
            THEN _adjust_strategy_parameters(counted, "aggressive")
            ELSE counted
    IN IF Poor(adjusted) THEN [adjusted EXCEPT !.is_active = FALSE]
       ELSE adjusted

\* the trade result is counted into the strategy
Counted(strategy, profit) ==
    [strategy EXCEPT
        !.total_trades = @ + 1,
        !.last_used = now,
        !.total_profit = @ + profit,
        !.winning_trades = IF profit > 0 THEN @ + 1 ELSE @,
        !.success_streak = IF profit > 0 THEN @ + 1 ELSE 0,
        !.failure_streak = IF profit > 0 THEN 0 ELSE @ + 1,
        !.max_drawdown = IF profit < @ THEN profit ELSE @]

update_strategy_performance(registry, strategy_id, profit) ==
    IF strategy_id \notin DOMAIN registry THEN registry
    ELSE LET counted == Counted(registry[strategy_id], profit)
             scored == [counted EXCEPT
                          !.performance_score = _calculate_performance_score(counted)]
         IN [registry EXCEPT ![strategy_id] = _adapt_strategy(scored)]

strategies_to_remove(registry) ==
    {id \in DOMAIN registry :
        \/ /\ now - registry[id].last_used > CLEANUP_UNUSED
           /\ registry[id].total_trades >= CLEANUP_TRADES
           /\ ScoreBelow(registry[id].performance_score, 2)
        \/ /\ registry[id].failure_streak >= CLEANUP_STREAK
           /\ registry[id].total_trades >= CLEANUP_TRADES}

cleanup_poor_strategies(registry) ==
    IF Cardinality(DOMAIN registry) - Cardinality(strategies_to_remove(registry))
           >= MIN_STRATEGIES
    THEN [id \in DOMAIN registry \ strategies_to_remove(registry) |-> registry[id]]
    ELSE registry

\* StrategyEngine.__init__
StrategyInit == strategies = _create_initial_strategies

(***************************************************************************)
(* TelegramBot (src/utils/telegram_bot.py).  Time is time.time() in        *)
(* seconds.                                                                *)
(***************************************************************************)
min_interval == 10
ERROR_INTERVAL == 300

\* a start of the clock later than every interval, as time.time() is
StartOfClock == 1000

\* the comparison of line 219 with > in place of >=
CanSendAfterInterval(T, message_type, interval) ==
    /\ T.enabled
    /\ LET last_time == IF message_type \in DOMAIN T.last_message_time
                        THEN T.last_message_time[message_type] ELSE 0
       IN  (T.time_time - last_time) > interval

_can_send_message(T, message_type, interval) ==
    /\ T.enabled
    /\ LET last_time == IF message_type \in DOMAIN T.last_message_time
                        THEN T.last_message_time[message_type] ELSE 0
       IN  (T.time_time - last_time) >= interval

_update_last_message_time(T, message_type) ==
    [T EXCEPT !.last_message_time =
        (message_type :> T.time_time) @@ T.last_message_time]

\* requests.post takes `took` seconds; the request is recorded with the
\* message type it carries.  The answer only decides the returned flag,
\* which the helpers below discard.
send_message(T, message_type, took) ==
    IF ~T.enabled THEN T
    ELSE [T EXCEPT !.outbox = Append(T.outbox,
                       [type |-> message_type, at |-> T.time_time]),
                   !.time_time = T.time_time + took]

send_trade_notification(T, action, took) ==
    LET message_type == <<"trade", action>>
    IN  IF ~_can_send_message(T, message_type, min_interval) THEN T
        ELSE _update_last_message_time(
                 send_message(T, message_type, took), message_type)

send_error_notification(T, error_type, took) ==
    LET message_type == <<"error", error_type>>
    IN  IF ~_can_send_message(T, message_type, ERROR_INTERVAL) THEN T
        ELSE _update_last_message_time(
                 send_message(T, message_type, took), message_type)

TCur == [enabled |-> enabled, last_message_time |-> last_message_time,
         time_time |-> time_time, outbox |-> outbox]

TApply(T) ==
    /\ enabled' = T.enabled
    /\ last_message_time' = T.last_message_time
    /\ time_time' = T.time_time
    /\ outbox' = T.outbox

\* TelegramBot.__init__; credentials: both TELEGRAM_BOT_TOKEN and
\* TELEGRAM_CHAT_ID are set
__init__(credentials) ==
    /\ enabled = credentials
    /\ last_message_time = Empty
    /\ time_time = StartOfClock
    /\ outbox = <<>>

TelegramInit == __init__(TRUE)

(***************************************************************************)
(* EnhancedBotMonitor (src/scripts/monitor.py), with the default           *)
(* configuration: auto_restart on.                                         *)
(***************************************************************************)
restart_threshold == 5

MCur == [restart_count |-> restart_count, bot_alive |-> bot_alive,
         launches |-> launches]

MApply(Mo) ==
    /\ restart_count' = Mo.restart_count
    /\ bot_alive' = Mo.bot_alive
    /\ launches' = Mo.launches

\* terminate, and kill after 3 s, every process running main.py
_stop_bot_process(Mo) == [Mo EXCEPT !.bot_alive = FALSE]

\* by: who asked ("loop" or "api"); exists: the bot script is on disk;
\* alive: the new process is still running 5 s after Popen
restart_bot(Mo, by, exists, alive) ==
    LET stopped == _stop_bot_process(Mo)
    IN  IF ~exists THEN stopped
        ELSE LET started == [stopped EXCEPT
                     !.launches = Append(@, [by |-> by, alive |-> alive])]
             IN  IF alive
                 THEN [started EXCEPT !.restart_count = @ + 1,
                                      !.bot_alive = TRUE]
                 ELSE started

\* one pass of the while loop of monitoring_loop: the automatic restart
auto_restart(Mo, exists, alive) ==
    IF ~Mo.bot_alive /\ Mo.restart_count < restart_threshold
    THEN restart_bot(Mo, "loop", exists, alive)
    ELSE Mo

\* EnhancedBotMonitor.__init__, next to a running bot
MonitorInit ==
    /\ restart_count = 0
    /\ bot_alive = TRUE
    /\ launches = <<>>

(***************************************************************************)
(* BotLauncher (src/scripts/start_bot.py).  monitor_bot runs in the main   *)
(* thread; signal_handler interrupts it between any two of its steps.      *)
(***************************************************************************)
max_restarts == 5
restart_interval == 30
CHECK_INTERVAL == 10

LCur == [pc |-> launcher_pc, restart_count |-> launcher_restarts,
         should_restart |-> should_restart, bot_process |-> bot_process,
         children |-> children, clock |-> launcher_clock]

LApply(L) ==
    /\ launcher_pc' = L.pc
    /\ launcher_restarts' = L.restart_count
    /\ should_restart' = L.should_restart
    /\ bot_process' = L.bot_process
    /\ children' = L.children
    /\ launcher_clock' = L.clock

\* self.bot_process.poll() is None
Running(L) == L.children[L.bot_process].alive

NewChild(L) ==
    [alive |-> TRUE, code |-> 0, terminated |-> FALSE, killed |-> FALSE,
     started_at |-> L.clock]

\* the restart condition with <= in place of <
MayRestartOnceMore(L) ==
    L.should_restart /\ L.restart_count <= max_restarts

\* self.should_restart and self.restart_count < self.max_restarts
MayRestart(L) ==
    L.should_restart /\ L.restart_count < max_restarts

\* monitor_bot from the top of the while loop to its first sleep or break;
\* gone: the child disappears between poll() and psutil.Process(pid)
poll(L, gone) ==
    IF ~L.should_restart THEN [L EXCEPT !.pc = "returned"]
    ELSE IF Running(L)
    THEN IF gone
         THEN [L EXCEPT !.pc = "returned",
                        !.children[L.bot_process].alive = FALSE,
                        !.children[L.bot_process].code = 1]
         ELSE [L EXCEPT !.pc = "check_sleep"]
    ELSE IF L.children[L.bot_process].code = 0
    THEN [L EXCEPT !.pc = "returned"]
    ELSE IF MayRestart(L)
    THEN [L EXCEPT !.restart_count = @ + 1, !.pc = "restart_sleep"]
    ELSE [L EXCEPT !.pc = "returned"]

\* time.sleep(self.restart_interval)
restart_sleep(L) ==
    [L EXCEPT !.clock = @ + restart_interval, !.pc = "start_bot"]

\* start_bot up to the return of subprocess.Popen; spawned: Popen did not
\* raise
start_bot(L, spawned) ==
    IF L.bot_process # None /\ Running(L) THEN [L EXCEPT !.pc = "returned"]
    ELSE IF spawned
    THEN [L EXCEPT !.children = Append(@, NewChild(L)), !.pc = "assign"]
    ELSE [L EXCEPT !.pc = "returned"]

\* the assignment to self.bot_process, start_output_logging and the
\* continue of monitor_bot
assign(L) ==
    [L EXCEPT !.bot_process = Len(L.children), !.pc = "poll"]

\* time.sleep(10) at the end of the loop body
check_sleep(L) ==
    [L EXCEPT !.clock = @ + CHECK_INTERVAL, !.pc = "poll"]

\* obeys: the child exits within 5 s of terminate()
stop_bot(L, obeys) ==
    LET off == [L EXCEPT !.should_restart = FALSE]
    IN  IF off.bot_process # None /\ Running(off)
        THEN [off EXCEPT !.children[off.bot_process] =
                 [@ EXCEPT !.alive = FALSE, !.code = 1,
                           !.terminated = TRUE, !.killed = ~obeys]]
        ELSE off

\* stop_bot, then sys.exit(0)
signal_handler(L, obeys) ==
    [stop_bot(L, obeys) EXCEPT !.pc = "exited"]

\* BotLauncher.__init__ and run() up to the call of monitor_bot
LauncherInit ==
    /\ launcher_pc = "poll"
    /\ launcher_restarts = 0
    /\ should_restart = TRUE
    /\ bot_process = 1
    /\ children = <<[alive |-> TRUE, code |-> 0, terminated |-> FALSE,
                     killed |-> FALSE, started_at |-> 0]>>
    /\ launcher_clock = 0

\* BotLauncher.run(safe_mode, no_restart) up to the call of monitor_bot: the
\* checks passed and start_bot has started the child
run(flag) ==
    /\ no_restart = flag
    /\ launcher_pc = "poll"
    /\ launcher_restarts = 0
    /\ should_restart = ~flag
    /\ bot_process = 1
    /\ children = <<[alive |-> TRUE, code |-> 0, terminated |-> FALSE,
                     killed |-> FALSE, started_at |-> 0]>>
    /\ launcher_clock = 0

(***************************************************************************)
(* The JSON snapshot files the trading process rewrites:                   *)
(* Trader._save_positions, Trader._save_trade_result and                   *)
(* RiskManager._record_emergency_event.  A file's content is the number of *)
(* blocks of the document that have reached the disk, out of the number    *)
(* the document has; the buffered writer hands a block to the disk when    *)
(* its buffer is full and the rest on close.                               *)
(***************************************************************************)
SnapshotFiles ==
    {"data/trades/positions.json", "data/trades/trade_results.json",
     "data/logs/emergency_events.json"}

\* a file that does not exist
Absent == [version |-> 0, written |-> 0, blocks |-> 0]

\* no file is open for writing
Closed == ""

\* open(file, 'w'): the file is created, or truncated to nothing
open_w(fs, file, version, blocks) ==
    [fs EXCEPT ![file] = [version |-> version, written |-> 0, blocks |-> blocks]]

\* json.dump fills the buffer and one block of the document reaches the disk
flush_block(fs, file) ==
    [fs EXCEPT ![file].written = @ + 1]

\* the end of the with statement: the rest is flushed and the file closed
close(fs, file) ==
    [fs EXCEPT ![file].written = fs[file].blocks]

\* open(file, 'r') and json.load in another process
read(fs, file) ==
    IF fs[file] = Absent THEN "FileNotFoundError"
    ELSE IF fs[file].written = 0 THEN "empty"
    ELSE IF fs[file].written < fs[file].blocks THEN "partial"
    ELSE "document"

\* no snapshot has been written yet
FilesInit ==
    /\ files = [file \in SnapshotFiles |-> Absent]
    /\ writing = Closed
    /\ saves = 0
    /\ reader_saw = [file \in SnapshotFiles |-> "unread"]

(***************************************************************************)
(* DatabaseManager (src/utils/database.py) used by several threads.  The   *)
(* content of a database file is the number of rows written to it.  A      *)
(* thread is idle, inside the with block of a write path ("writing"), or   *)
(* inside the shutil.copy2 of restore_backup onto the live file            *)
(* ("restoring").                                                          *)
(***************************************************************************)
Threads == {1, 2}
Free == 0
NoFile == 0 - 1

\* the rows of the backup file restore_backup is given
BACKUP_ROWS == 0

Idle == [pc |-> "idle", op |-> "", backed_up |-> FALSE]

DCur == [db_file |-> db_file, pre_restore_backup |-> pre_restore_backup,
         db_lock |-> db_lock, db_threads |-> db_threads]

DApply(D) ==
    /\ db_file' = D.db_file
    /\ pre_restore_backup' = D.pre_restore_backup
    /\ db_lock' = D.db_lock
    /\ db_threads' = D.db_threads

\* with self._lock: with self._get_connection() as conn: of save_trade,
\* update_trade_result, delete_old_trades, ..., vacuum_database
enter_write(D, thread, op) ==
    [D EXCEPT !.db_lock = thread,
              !.db_threads[thread] = [Idle EXCEPT !.pc = "writing", !.op = op]]

\* conn.commit() and the end of both with blocks
commit(D, thread) ==
    [D EXCEPT !.db_file = IF D.db_threads[thread].op = "save_trade"
                          THEN @ + 1 ELSE @,
              !.db_lock = Free,
              !.db_threads[thread] = Idle]

\* create_backup: shutil.copy2(self.db_path, backup_path); copied: the
\* copy did not raise.  On an exception None is returned.
create_backup(D, copied) ==
    IF copied THEN [D EXCEPT !.pre_restore_backup = D.db_file] ELSE D

\* restore_backup up to the start of shutil.copy2(backup_file, self.db_path)
restore_backup(D, thread, exists, copied) ==
    IF ~exists THEN D
    ELSE [create_backup(D, copied) EXCEPT
             !.db_threads[thread] =
                 [Idle EXCEPT !.pc = "restoring", !.op = "restore_backup",
                              !.backed_up = copied]]

\* the end of shutil.copy2(backup_file, self.db_path)
restored(D, thread) ==
    [D EXCEPT !.db_file = BACKUP_ROWS, !.db_threads[thread] = Idle]

\* DatabaseManager.__init__
DatabaseInit ==
    /\ db_file = 0
    /\ pre_restore_backup = NoFile
    /\ db_lock = Free
    /\ db_threads = [thread \in Threads |-> Idle]

\* TradingBot.start() has set is_running and entered _main_loop
LoopInit ==
    /\ is_running = TRUE
    /\ main_pc = "body"
    /\ scan_log = <<>>

(***************************************************************************)
(* DataCollector (src/core/data_collector.py): the OHLCV cache.  Times are *)
(* in seconds.  A data frame is named by the time the exchange produced    *)
(* it; NoFrame is the answer None (or an empty frame).                     *)
(***************************************************************************)
cache_duration == 30        \* self.cache_duration = 30
DAY_SECONDS == 86400        \* timedelta.seconds is below one day
NoFrame == 0 - 1

\* DataCollector._get_cache_key: f"{ticker}_{timeframe}_{count}"
_get_cache_key(ticker, timeframe, count) ==
    ticker \o "_" \o timeframe \o "_" \o ToString(count)

CCur == [data_cache |-> data_cache, now |-> cache_now, queries |-> queries,
         ret |-> ohlcv_ret]

CApply(C) ==
    /\ data_cache' = C.data_cache
    /\ queries' = C.queries
    /\ ohlcv_ret' = C.ret
    /\ UNCHANGED cache_now

\* DataCollector._is_cache_valid: (datetime.now() - cache_time).seconds
_is_cache_valid(C, cache_key) ==
    /\ cache_key \in DOMAIN C.data_cache
    /\ (C.now - C.data_cache[cache_key].timestamp) % DAY_SECONDS < cache_duration

\* DataCollector.get_ohlcv.  df: the frame pyupbit.get_ohlcv answers with
get_ohlcv(C, ticker, timeframe, count, df) ==
    LET cache_key == _get_cache_key(ticker, timeframe, count)
    IN  IF _is_cache_valid(C, cache_key)
        THEN [C EXCEPT !.ret = [source |-> "cache",
                                data |-> C.data_cache[cache_key].data]]
        ELSE LET C1 == [C EXCEPT !.queries = C.queries + 1]
             IN  IF df = NoFrame
                 THEN [C1 EXCEPT !.ret = [source |-> "none", data |-> NoFrame]]
                 ELSE [C1 EXCEPT
                         !.data_cache = (cache_key :> [data |-> df, timestamp |-> C.now])
                                            @@ C.data_cache,
                         !.ret = [source |-> "exchange", data |-> df]]

\* DataCollector.__init__
CacheInit ==
    /\ data_cache = <<>>
    /\ cache_now = 0
    /\ queries = 0
    /\ ohlcv_ret = [source |-> "none", data |-> NoFrame]

\* the log of a bot that has not reset anything yet
ResetInit == reset_log = <<>>

\* a launcher started without --no-restart
DefaultRun == no_restart = FALSE

ExtraInit == CacheInit /\ ResetInit /\ DefaultRun

AuxInit ==
    /\ TelegramInit
    /\ MonitorInit
    /\ LauncherInit
    /\ FilesInit
    /\ DatabaseInit
    /\ LoopInit
    /\ ExtraInit

\* the record of a loop iteration before any has run
NoIteration ==
    [ran |-> FALSE, emergency |-> FALSE, refreshed |-> FALSE,
     exit_checked |-> FALSE, scanned |-> FALSE]

\* TradingBot.__init__
BotInit ==
    /\ bot_emergency_mode = FALSE
    /\ last_health_check = now
    /\ loop_count = 0
    /\ iteration = NoIteration

(***************************************************************************)
(* Trader.__init__: the exchange client is built (or left None when the    *)
(* connection test fails), the counters start at zero and the positions    *)
(* are read back from positions.json.                                      *)
(***************************************************************************)
TraderInit(file, up) ==
    /\ upbit = up
    /\ positions = _load_positions(file)
    /\ positions_file = file
    /\ order_history = <<>>
    /\ orders_created = 0
    /\ daily_trade_count = 0
    /\ daily_loss = 0
    /\ last_trade_time = Empty

EnvInit ==
    /\ exchange_orders = <<>>
    /\ traded_at = Empty
    /\ safe_mode \in BOOLEAN
    /\ now \in StartTimes
    /\ ticks = 0

\* a Trader object on its own
InitTrader ==
    /\ \E file \in PositionFiles : \E up \in BOOLEAN : TraderInit(file, up)
    /\ EnvInit
    /\ RiskInit([ok |-> FALSE, total |-> 0])
    /\ BotInit
    /\ HandlerInit(DEFAULT_EMERGENCY_THRESHOLD)
    /\ StrategyInit
    /\ AuxInit

Budget == orders_created < MaxOrders

ExecuteSignal ==
    /\ Budget
    /\ \E signal \in Signals : \E env \in SignalEnvs(signal) :
         LET S == execute_signal(Cur, signal, env)
         IN Apply(S)
    /\ UNCHANGED <<upbit, safe_mode, now, ticks, riskVars, botVars, handlerVars, strategyVars, auxVars>>

UpdatePositions ==
    /\ \E prices \in EnvsFor(HeldTickers(Cur), Prices \cup {None}, None) :
         LET S == update_positions(Cur, prices)
         IN Apply(S)
    /\ UNCHANGED <<upbit, safe_mode, now, ticks, riskVars, botVars, handlerVars, strategyVars, auxVars>>

CheckExitConditions ==
    /\ Budget
    /\ \E envs \in EnvsFor({positions[p].ticker : p \in PositionsToClose(Cur)},
                          CloseEnvs, CHOOSE e \in CloseEnvs : TRUE) :
         LET S == check_exit_conditions(Cur, envs)
         IN Apply(S)
    /\ UNCHANGED <<upbit, safe_mode, now, ticks, riskVars, botVars, handlerVars, strategyVars, auxVars>>

EmergencyCloseAllPositions ==
    /\ Budget
    /\ \E envs \in EnvsFor(HeldTickers(Cur), CloseEnvs, CHOOSE e \in CloseEnvs : TRUE) :
         LET S == emergency_close_all_positions(Cur, envs)
         IN Apply(S)
    /\ UNCHANGED <<upbit, safe_mode, now, ticks, riskVars, botVars, handlerVars, strategyVars, auxVars>>

ForceSyncBalances ==
    /\ \E balances \in EnvsFor(HeldTickers(Cur), Balances, 0) :
         LET S == force_sync_balances(Cur, balances)
         IN Apply(S)
    /\ UNCHANGED <<upbit, safe_mode, now, ticks, riskVars, botVars, handlerVars, strategyVars, auxVars>>

ResetDailyLimits ==
    /\ LET S == trader_reset_daily_limits(Cur)
       IN Apply(S)
    /\ UNCHANGED <<upbit, safe_mode, now, ticks, riskVars, botVars, handlerVars, strategyVars, auxVars>>

CancelAllPendingOrders ==
    /\ LET S == cancel_all_pending_orders(Cur)
       IN Apply(S)
    /\ UNCHANGED <<upbit, safe_mode, now, ticks, riskVars, botVars, handlerVars, strategyVars, auxVars>>

Tick ==
    /\ ticks < MaxTicks
    /\ ticks' = ticks + 1
    /\ \E d \in Steps : now' = now + d
    /\ UNCHANGED <<positions, order_history, daily_trade_count, daily_loss,
                   last_trade_time, upbit, positions_file, exchange_orders,
                   traded_at, orders_created, safe_mode, riskVars, botVars,
                   handlerVars, strategyVars, auxVars>>

TraderNext ==
    \/ ExecuteSignal
    \/ UpdatePositions
    \/ CheckExitConditions
    \/ EmergencyCloseAllPositions
    \/ ForceSyncBalances
    \/ ResetDailyLimits
    \/ CancelAllPendingOrders
    \/ Tick

SpecTrader == InitTrader /\ [][TraderNext]_vars

(***************************************************************************)
(* A trading day of one Trader: signals of one ticker, an exchange that    *)
(* fills every order it receives, a clock that advances by one cool-down,  *)
(* and the daily reset.  The day is long enough for the daily trade limit  *)
(* to be reached.                                                          *)
(***************************************************************************)
MaxDayOrders == 22
MaxDayTicks == 22

DaySignals ==
    {signal \in Signals : signal.ticker = "KRW-BTC"
                            /\ signal.confidence = RISK_MIN_CONFIDENCE}

FilledEnvs(signal) == {env \in SignalEnvs(signal) : env.result}

ExecuteSignalFilled ==
    /\ orders_created < MaxDayOrders
    /\ \E signal \in DaySignals : \E env \in FilledEnvs(signal) :
         LET S == execute_signal(Cur, signal, env)
         IN Apply(S)
    /\ UNCHANGED <<upbit, safe_mode, now, ticks, riskVars, botVars, handlerVars, strategyVars, auxVars>>

CoolDownTick ==
    /\ ticks < MaxDayTicks
    /\ ticks' = ticks + 1
    /\ now' = now + COOLDOWN
    /\ UNCHANGED <<positions, order_history, daily_trade_count, daily_loss,
                   last_trade_time, upbit, positions_file, exchange_orders,
                   traded_at, orders_created, safe_mode, riskVars, botVars,
                   handlerVars, strategyVars, auxVars>>

InitTraderDay ==
    /\ TraderInit(Empty, TRUE)
    /\ exchange_orders = <<>>
    /\ traded_at = Empty
    /\ safe_mode = FALSE
    /\ now \in StartTimes
    /\ ticks = 0
    /\ RiskInit([ok |-> FALSE, total |-> 0])
    /\ BotInit
    /\ HandlerInit(DEFAULT_EMERGENCY_THRESHOLD)
    /\ StrategyInit
    /\ AuxInit

TraderDayNext ==
    \/ ExecuteSignalFilled
    \/ CoolDownTick
    \/ ResetDailyLimits

SpecTraderDay == InitTraderDay /\ [][TraderDayNext]_vars

(***************************************************************************)
(* The RiskManager's operations.  validate_signal is handed the Trader's   *)
(* position map, as TradingBot would pass it.                              *)
(***************************************************************************)
ValidateSignal ==
    /\ \E signal \in Signals : \E env \in RiskEnvs :
         LET R == validate_signal(RCur, signal, positions, env)
         IN /\ RApply(R)
            /\ approved' = IF R.ret /\ signal.action = "BUY"
                           THEN approved \cup {signal} ELSE approved
    /\ UNCHANGED <<traderVars, botVars, handlerVars, strategyVars, auxVars>>

EnterEmergencyMode ==
    /\ Len(risk_alerts) < MaxAlerts
    /\ RApply(enter_emergency_mode(RCur))
    /\ UNCHANGED <<traderVars, approved, botVars, handlerVars, strategyVars, auxVars>>

ExitEmergencyMode ==
    /\ RApply(exit_emergency_mode(RCur))
    /\ UNCHANGED <<traderVars, approved, botVars, handlerVars, strategyVars, auxVars>>

RiskResetDailyLimits ==
    /\ \E capital \in Capitals : RApply(risk_reset_daily_limits(RCur, capital))
    /\ UNCHANGED <<traderVars, approved, botVars, handlerVars, strategyVars, auxVars>>

OverrideRiskControls ==
    /\ RApply(override_risk_controls(RCur))
    /\ UNCHANGED <<traderVars, approved, botVars, handlerVars, strategyVars, auxVars>>

RestoreRiskControls ==
    /\ RApply(restore_risk_controls(RCur))
    /\ UNCHANGED <<traderVars, approved, botVars, handlerVars, strategyVars, auxVars>>

\* a RiskManager object next to a connected Trader
InitRisk ==
    /\ \E file \in PositionFiles : TraderInit(file, TRUE)
    /\ EnvInit
    /\ \E capital \in Capitals : RiskInit(capital)
    /\ BotInit
    /\ HandlerInit(DEFAULT_EMERGENCY_THRESHOLD)
    /\ StrategyInit
    /\ AuxInit

RiskNext ==
    \/ ValidateSignal
    \/ UpdatePositions
    \/ EnterEmergencyMode
    \/ ExitEmergencyMode
    \/ RiskResetDailyLimits
    \/ OverrideRiskControls
    \/ RestoreRiskControls

SpecRisk == InitRisk /\ [][RiskNext]_vars

(***************************************************************************)
(* TradingBot (src/main.py).  Its methods are operators over a record W of *)
(* the bot's fields (B), its Trader (S), its RiskManager (R) and the       *)
(* record of the loop iteration that ran last.                             *)
(***************************************************************************)
HEALTH_INTERVAL == 5        \* 300 s between two health checks
SCAN_EVERY == 5             \* a scan for entries every 5th iteration
RESET_WINDOW == 5           \* the daily reset runs from 00:00 to 00:05
SleepSteps == {5}           \* minutes the clock advances between iterations

\* the methods of RiskManager the bot calls, with the number of arguments
\* each accepts besides self
RiskManagerParams ==
    [validate_signal |-> {2}, adjust_position_size |-> {2},
     reset_daily_limits |-> {0}, enter_emergency_mode |-> {1},
     exit_emergency_mode |-> {0, 1}, health_check |-> {0}]

\* the call risk_manager.method(nargs arguments) does not raise
Callable(method, nargs) ==
    /\ method \in DOMAIN RiskManagerParams
    /\ nargs \in RiskManagerParams[method]

WCur ==
    [S |-> Cur, R |-> RCur,
     B |-> [emergency_mode |-> bot_emergency_mode,
            last_health_check |-> last_health_check],
     iteration |-> iteration, ret |-> FALSE]

WApply(W) ==
    /\ Apply(W.S)
    /\ RApply(W.R)
    /\ approved' = W.S.approved
    /\ bot_emergency_mode' = W.B.emergency_mode
    /\ last_health_check' = W.B.last_health_check
    /\ iteration' = W.iteration

\* Trader.health_check as far as the bot reads it: api_status is OK when the
\* exchange client exists; balance_status is OK as get_balance never
\* answers a negative number
_system_health_check(W) ==
    IF Seconds(now - W.B.last_health_check) < HEALTH_INTERVAL
    THEN [W EXCEPT !.ret = TRUE]
    ELSE [W EXCEPT !.B.last_health_check = now, !.ret = upbit]

_handle_emergency_mode(W) ==
    [W EXCEPT !.B.emergency_mode = TRUE]

_process_buy_signal(W, signal, env) ==
    IF ~Callable("validate_signal", 1) THEN [W EXCEPT !.ret = FALSE]
    ELSE LET R1 == validate_signal(W.R, signal, W.S.positions, env.risk)
         IN IF ~R1.ret \/ ~Callable("adjust_position_size", 1)
            THEN [W EXCEPT !.ret = FALSE]
            ELSE LET S1 == execute_signal(
                             [W.S EXCEPT !.approved = @ \cup {signal}],
                             signal, env.buy)
                 IN [W EXCEPT !.S = S1, !.ret = S1.ret]

_scan_trading_opportunities(W, env) ==
    IF Cardinality(DOMAIN W.S.positions) >= max_positions THEN W
    ELSE IF env.signal.ticker \in HeldTickers(W.S) THEN W
    ELSE IF env.signal.action # "BUY" THEN W
    ELSE _process_buy_signal(W, env.signal, env)

_check_daily_reset(W, capital) ==
    IF now % DAY <= RESET_WINDOW
    THEN [W EXCEPT !.S = trader_reset_daily_limits(W.S),
                   !.R = risk_reset_daily_limits(W.R, capital),
                   !.B.emergency_mode = FALSE]
    ELSE W

Ran(W, emergency, monitored, scanned) ==
    [W EXCEPT !.iteration =
        [ran |-> TRUE, emergency |-> emergency, refreshed |-> monitored,
         exit_checked |-> monitored, scanned |-> scanned]]

\* one pass through the body of the while loop of _main_loop; n is loop_count
_main_loop(W, n, env) ==
    LET W1 == _system_health_check(W)
        emergency == W.R.emergency_mode
    IN IF ~W1.ret THEN Ran(W1, emergency, FALSE, FALSE)
       \* risk_manager.get_overall_risk_status() raises AttributeError when
       \* RiskManager has no such method; the loop's except clause catches it
       ELSE IF ~Callable("get_overall_risk_status", 0)
           THEN Ran(W1, emergency, FALSE, FALSE)
       ELSE IF emergency
           THEN Ran(_handle_emergency_mode(W1), emergency, FALSE, FALSE)
       ELSE LET W2 == [W1 EXCEPT !.S = check_exit_conditions(
                                   update_positions(W1.S, env.prices), env.closes)]
                W3 == IF n % SCAN_EVERY = 0
                      THEN _scan_trading_opportunities(W2, env) ELSE W2
            IN Ran(_check_daily_reset(W3, env.risk.capital), emergency, TRUE,
                   n % SCAN_EVERY = 0)

LoopEnvs ==
    [prices : [Tickers -> SellPrices],
     closes : [Tickers -> {CHOOSE e \in CloseEnvs : e.result}],
     signal : {s \in Signals : s.action = "BUY" /\ s.confidence >= RISK_MIN_CONFIDENCE},
     risk : {CHOOSE e \in RiskEnvs : e.capital.ok},
     buy : {CHOOSE e \in BuyEnvs : e.result}]

MainLoopIteration ==
    /\ loop_count < MaxLoops
    /\ loop_count' = loop_count + 1
    /\ \E env \in LoopEnvs : WApply(_main_loop(WCur, loop_count + 1, env))
    /\ UNCHANGED <<upbit, safe_mode, now, ticks, handlerVars, strategyVars, auxVars>>

ProcessBuySignal ==
    /\ Budget
    /\ \E env \in LoopEnvs : WApply(_process_buy_signal(WCur, env.signal, env))
    /\ UNCHANGED <<upbit, safe_mode, now, ticks, loop_count, handlerVars, strategyVars, auxVars>>

\* asyncio.sleep between two iterations: the clock advances
Sleep ==
    /\ ticks < MaxSleeps
    /\ ticks' = ticks + 1
    /\ \E d \in SleepSteps : now' = now + d
    /\ UNCHANGED <<positions, order_history, daily_trade_count, daily_loss,
                   last_trade_time, upbit, positions_file, exchange_orders,
                   traded_at, orders_created, safe_mode, riskVars, botVars,
                   handlerVars, strategyVars, auxVars>>

\* TradingBot.__init__ at midnight: Settings() without safe_mode, a Trader
\* whose connection test passed, a RiskManager
InitBot ==
    /\ \E file \in PositionFiles : TraderInit(file, TRUE)
    /\ exchange_orders = <<>>
    /\ traded_at = Empty
    /\ safe_mode = FALSE
    /\ now = 0
    /\ ticks = 0
    /\ RiskInit([ok |-> TRUE, total |-> DEFAULT_CAPITAL])
    /\ BotInit
    /\ HandlerInit(DEFAULT_EMERGENCY_THRESHOLD)
    /\ StrategyInit
    /\ AuxInit

BotNext ==
    \/ MainLoopIteration
    \/ ProcessBuySignal
    \/ Sleep
    \/ ExecuteSignal
    \/ ValidateSignal
    \/ EnterEmergencyMode
    \/ ExitEmergencyMode

SpecBot == InitBot /\ [][BotNext]_vars

(***************************************************************************)
(* The EnhancedErrorHandler's operations.                                  *)
(***************************************************************************)
HandleError ==
    /\ Len(error_history) < MaxErrors
    /\ \E error \in Errors : \E recovered \in BOOLEAN :
         HApply(handle_error(HCur, error, recovered))
    /\ UNCHANGED <<traderVars, riskVars, botVars, strategyVars, auxVars,
                   emergency_mode_threshold>>

MonitoringCycle ==
    /\ \E probe \in Probes : HApply(monitoring_loop(HCur, probe))
    /\ UNCHANGED <<traderVars, riskVars, botVars, strategyVars, auxVars,
                   emergency_mode_threshold>>

ForceRecoveryAttempt ==
    /\ \E i \in 1..Len(error_history) : \E success \in BOOLEAN :
         HApply(force_recovery_attempt(HCur, i, success))
    /\ UNCHANGED <<traderVars, riskVars, botVars, strategyVars, auxVars,
                   emergency_mode_threshold>>

ResetEmergencyMode ==
    /\ HApply(reset_emergency_mode(HCur))
    /\ UNCHANGED <<traderVars, riskVars, botVars, strategyVars, auxVars,
                   emergency_mode_threshold>>

\* the clock advances between two calls
Wait ==
    /\ ticks < MaxWaits
    /\ ticks' = ticks + 1
    /\ \E d \in WaitSteps : now' = now + d
    /\ UNCHANGED <<positions, order_history, daily_trade_count, daily_loss,
                   last_trade_time, upbit, positions_file, exchange_orders,
                   traded_at, orders_created, safe_mode, riskVars, botVars,
                   handlerVars, strategyVars, auxVars>>

\* an EnhancedErrorHandler object on its own
InitHandler ==
    /\ TraderInit(Empty, TRUE)
    /\ exchange_orders = <<>>
    /\ traded_at = Empty
    /\ safe_mode = FALSE
    /\ now \in StartTimes
    /\ ticks = 0
    /\ RiskInit([ok |-> FALSE, total |-> 0])
    /\ BotInit
    /\ \E threshold \in EmergencyThresholds : HandlerInit(threshold)
    /\ StrategyInit
    /\ AuxInit

HandlerNext ==
    \/ HandleError
    \/ MonitoringCycle
    \/ ForceRecoveryAttempt
    \/ ResetEmergencyMode
    \/ Wait

SpecHandler == InitHandler /\ [][HandlerNext]_vars

(***************************************************************************)
(* A run of errors handled one after the other, none of them recovered:    *)
(* recovery, where handle_error attempts it, fails.                        *)
(***************************************************************************)
MaxRunErrors == 12

HandleErrorUnrecovered ==
    /\ Len(error_history) < MaxRunErrors
    /\ \E error \in Errors : HApply(handle_error(HCur, error, FALSE))
    /\ UNCHANGED <<traderVars, riskVars, botVars, strategyVars, auxVars,
                   emergency_mode_threshold>>

ErrorRunNext == HandleErrorUnrecovered

SpecErrorRun == InitHandler /\ [][ErrorRunNext]_vars

(***************************************************************************)
(* A StrategyEngine whose first strategy closes trades, winning or losing, *)
(* while the clock may advance and the registry may be cleaned up.         *)
(***************************************************************************)
MaxStrategyTrades == 12

InitStrategy ==
    /\ TraderInit(Empty, TRUE)
    /\ exchange_orders = <<>>
    /\ traded_at = Empty
    /\ safe_mode = FALSE
    /\ now \in StartTimes
    /\ ticks = 0
    /\ RiskInit([ok |-> FALSE, total |-> 0])
    /\ BotInit
    /\ HandlerInit(DEFAULT_EMERGENCY_THRESHOLD)
    /\ StrategyInit
    /\ AuxInit

UpdateFirstStrategy ==
    /\ 1 \in DOMAIN strategies => strategies[1].total_trades < MaxStrategyTrades
    /\ \E profit \in Profits :
         strategies' = update_strategy_performance(strategies, 1, profit)
    /\ UNCHANGED <<traderVars, riskVars, botVars, handlerVars, auxVars>>

CleanupPoorStrategies ==
    /\ strategies' = cleanup_poor_strategies(strategies)
    /\ UNCHANGED <<traderVars, riskVars, botVars, handlerVars, auxVars>>

StrategyNext ==
    \/ UpdateFirstStrategy
    \/ CleanupPoorStrategies
    \/ Tick

SpecStrategy == InitStrategy /\ [][StrategyNext]_vars

(***************************************************************************)
(* A StrategyEngine all of whose strategies close losing trades.           *)
(***************************************************************************)
MaxLosingTrades == 10

UpdateLosingStrategy ==
    /\ \E strategy_id \in StrategyIds :
         /\ strategy_id \in DOMAIN strategies =>
               strategies[strategy_id].total_trades < MaxLosingTrades
         /\ strategies' = update_strategy_performance(strategies, strategy_id, 0 - 5)
    /\ UNCHANGED <<traderVars, riskVars, botVars, handlerVars, auxVars>>

RegistryNext ==
    \/ UpdateLosingStrategy
    \/ CleanupPoorStrategies

SpecRegistry == InitStrategy /\ [][RegistryNext]_vars

(***************************************************************************)
(* TradingBot._main_loop as a loop, and a scan over several tickers.       *)
(* What the analysis of a ticker does: the price query raises or answers   *)
(* nothing ("no_price"), the analysis raises ("raises"),                   *)
(* _collect_market_data answers None ("no_data"), or a BUY signal is       *)
(* generated ("signal").                                                   *)
(***************************************************************************)
KrwTickers == <<"KRW-BTC", "KRW-ETH", "KRW-XRP">>
ScanOutcomes == {"no_price", "raises", "no_data", "signal"}
MAX_SIGNALS == 3

BuySignal(ticker) ==
    [action |-> "BUY", ticker |-> ticker, confidence |-> RISK_MIN_CONFIDENCE,
     stop_loss |-> 85, take_profit |-> 110]

\* what the try block of the second for loop does with one ticker
Analysed(W, ticker, outcome, env) ==
    LET W1 == IF outcome[ticker] = "signal"
              THEN _process_buy_signal(W, BuySignal(ticker), env)
              ELSE [W EXCEPT !.ret = FALSE]
    IN  [W |-> W1,
         result |-> IF outcome[ticker] = "raises" THEN "raised"
                    ELSE IF outcome[ticker] = "no_data" THEN "no_data"
                    ELSE IF W1.ret THEN "bought"
                    ELSE "refused"]

\* the second for loop with the exception of one ticker ending the scan
RECURSIVE ScanUntilException(_, _, _, _, _)
ScanUntilException(W, tickers, outcome, env, generated) ==
    IF tickers = <<>> \/ generated >= MAX_SIGNALS
    THEN [W |-> W, log |-> <<>>]
    ELSE LET ticker == Head(tickers)
             one == Analysed(W, ticker, outcome, env)
             rest == IF one.result = "raised" THEN [W |-> one.W, log |-> <<>>]
                     ELSE ScanUntilException(one.W, Tail(tickers), outcome, env,
                              IF one.W.ret THEN generated + 1 ELSE generated)
         IN  [W |-> rest.W,
              log |-> <<[ticker |-> ticker, result |-> one.result]>> \o rest.log]

\* for ticker in top_tickers: try: ... except Exception: continue
RECURSIVE ScanEach(_, _, _, _, _)
ScanEach(W, tickers, outcome, env, generated) ==
    IF tickers = <<>> \/ generated >= MAX_SIGNALS
    THEN [W |-> W, log |-> <<>>]
    ELSE LET ticker == Head(tickers)
             one == Analysed(W, ticker, outcome, env)
             rest == ScanEach(one.W, Tail(tickers), outcome, env,
                              IF one.W.ret THEN generated + 1 ELSE generated)
         IN  [W |-> rest.W,
              log |-> <<[ticker |-> ticker, result |-> one.result]>> \o rest.log]

\* _scan_trading_opportunities over the tickers get_krw_tickers answers
scan_tickers(W, outcome, env) ==
    IF Cardinality(DOMAIN W.S.positions) >= max_positions
    THEN [W |-> W, log |-> <<>>]
    ELSE LET candidate(ticker) == ticker \notin HeldTickers(W.S)
             priced(ticker) == outcome[ticker] # "no_price"
             top_tickers == SelectSeq(SelectSeq(KrwTickers, candidate), priced)
         IN  ScanEach(W, top_tickers, outcome, env, 0)

(***************************************************************************)
(* The components around the trading bot start next to an idle bot.        *)
(***************************************************************************)
CoreInit ==
    /\ TraderInit(Empty, TRUE)
    /\ exchange_orders = <<>>
    /\ traded_at = Empty
    /\ safe_mode = FALSE
    /\ now = 0
    /\ ticks = 0
    /\ RiskInit([ok |-> FALSE, total |-> 0])
    /\ BotInit
    /\ HandlerInit(DEFAULT_EMERGENCY_THRESHOLD)
    /\ StrategyInit

(***************************************************************************)
(* The TelegramBot: notifications of two helpers while the clock advances. *)
(***************************************************************************)
MaxMessages == 3
MaxClock == StartOfClock + 320
ClockSteps == {10, 290}
PostDurations == {0, 10}
TradeActions == {"BUY"}
ErrorTypes == {"API"}

InitTelegram ==
    /\ CoreInit
    /\ \E credentials \in BOOLEAN : __init__(credentials)
    /\ MonitorInit
    /\ LauncherInit
    /\ FilesInit
    /\ DatabaseInit
    /\ LoopInit
    /\ ExtraInit

SendTradeNotification ==
    /\ Len(outbox) < MaxMessages
    /\ \E action \in TradeActions, took \in PostDurations :
          TApply(send_trade_notification(TCur, action, took))
    /\ UNCHANGED <<coreVars, monitorVars, launcherVars, fileVars, dbVars>>

SendErrorNotification ==
    /\ Len(outbox) < MaxMessages
    /\ \E error_type \in ErrorTypes, took \in PostDurations :
          TApply(send_error_notification(TCur, error_type, took))
    /\ UNCHANGED <<coreVars, monitorVars, launcherVars, fileVars, dbVars>>

AdvanceClock ==
    /\ \E step \in ClockSteps :
          /\ time_time + step <= MaxClock
          /\ time_time' = time_time + step
    /\ UNCHANGED <<coreVars, enabled, last_message_time, outbox, monitorVars,
                   launcherVars, fileVars, dbVars>>

TelegramNext ==
    \/ SendTradeNotification
    \/ SendErrorNotification
    \/ AdvanceClock

SpecTelegram == InitTelegram /\ [][TelegramNext]_vars

(***************************************************************************)
(* The EnhancedBotMonitor watching a bot that may exit at any time.        *)
(***************************************************************************)
MaxLaunches == 7

InitMonitor == CoreInit /\ AuxInit

MonitoringLoopPass ==
    /\ Len(launches) < MaxLaunches
    /\ \E exists \in BOOLEAN, alive \in BOOLEAN :
          MApply(auto_restart(MCur, exists, alive))
    /\ UNCHANGED <<coreVars, telegramVars, launcherVars, fileVars, dbVars>>

ApiRestart ==
    /\ Len(launches) < MaxLaunches
    /\ \E exists \in BOOLEAN, alive \in BOOLEAN :
          MApply(restart_bot(MCur, "api", exists, alive))
    /\ UNCHANGED <<coreVars, telegramVars, launcherVars, fileVars, dbVars>>

BotExits ==
    /\ bot_alive
    /\ bot_alive' = FALSE
    /\ UNCHANGED <<coreVars, telegramVars, restart_count, launches, launcherVars,
                   fileVars, dbVars>>

MonitorNext ==
    \/ MonitoringLoopPass
    \/ ApiRestart
    \/ BotExits

SpecMonitor == InitMonitor /\ [][MonitorNext]_vars

(***************************************************************************)
(* The BotLauncher supervising a child that may exit at any time, and a    *)
(* shutdown signal that may arrive at any time.                            *)
(***************************************************************************)
MaxChecks == 3
ExitCodes == {0, 1}

InitLauncher == CoreInit /\ AuxInit

Poll ==
    /\ launcher_pc = "poll"
    /\ \E gone \in BOOLEAN : LApply(poll(LCur, gone))
    /\ UNCHANGED <<coreVars, telegramVars, monitorVars, fileVars, dbVars>>

RestartSleep ==
    /\ launcher_pc = "restart_sleep"
    /\ LApply(restart_sleep(LCur))
    /\ UNCHANGED <<coreVars, telegramVars, monitorVars, fileVars, dbVars>>

StartBot ==
    /\ launcher_pc = "start_bot"
    /\ \E spawned \in BOOLEAN : LApply(start_bot(LCur, spawned))
    /\ UNCHANGED <<coreVars, telegramVars, monitorVars, fileVars, dbVars>>

Assign ==
    /\ launcher_pc = "assign"
    /\ LApply(assign(LCur))
    /\ UNCHANGED <<coreVars, telegramVars, monitorVars, fileVars, dbVars>>

CheckSleep ==
    /\ launcher_pc = "check_sleep"
    /\ launcher_clock + CHECK_INTERVAL <=
           MaxChecks * CHECK_INTERVAL + launcher_restarts * restart_interval
    /\ LApply(check_sleep(LCur))
    /\ UNCHANGED <<coreVars, telegramVars, monitorVars, fileVars, dbVars>>

\* SIGINT or SIGTERM arrives while run() is still going
SignalHandler ==
    /\ launcher_pc \notin {"returned", "exited"}
    /\ \E obeys \in BOOLEAN : LApply(signal_handler(LCur, obeys))
    /\ UNCHANGED <<coreVars, telegramVars, monitorVars, fileVars, dbVars>>

\* a running child exits by itself
ChildExits ==
    /\ \E c \in 1..Len(children), code \in ExitCodes :
          /\ children[c].alive
          /\ children' = [children EXCEPT ![c].alive = FALSE, ![c].code = code]
    /\ UNCHANGED <<coreVars, telegramVars, monitorVars, launcher_pc,
                   launcher_restarts, should_restart, bot_process,
                   launcher_clock, fileVars, dbVars>>

LauncherNext ==
    \/ Poll
    \/ RestartSleep
    \/ StartBot
    \/ Assign
    \/ CheckSleep
    \/ SignalHandler
    \/ ChildExits

SpecLauncher == InitLauncher /\ [][LauncherNext]_vars

(***************************************************************************)
(* The trading process rewriting its snapshot files while another process  *)
(* (the dashboard, the monitor) reads them.                                *)
(***************************************************************************)
MaxSaves == 3
MaxBlocks == 2

InitFiles == CoreInit /\ AuxInit

\* _save_positions, _save_trade_result or _record_emergency_event reaches
\* its open(file, 'w')
SaveOpens ==
    /\ writing = Closed
    /\ saves < MaxSaves
    /\ \E file \in SnapshotFiles, blocks \in 1..MaxBlocks :
          /\ files' = open_w(files, file, saves + 1, blocks)
          /\ writing' = file
    /\ saves' = saves + 1
    /\ UNCHANGED <<coreVars, telegramVars, monitorVars, launcherVars, reader_saw,
                   dbVars>>

SaveFlushes ==
    /\ writing # Closed
    /\ files[writing].written + 1 < files[writing].blocks
    /\ files' = flush_block(files, writing)
    /\ UNCHANGED <<coreVars, telegramVars, monitorVars, launcherVars, writing,
                   saves, reader_saw, dbVars>>

SaveCloses ==
    /\ writing # Closed
    /\ files' = close(files, writing)
    /\ writing' = Closed
    /\ UNCHANGED <<coreVars, telegramVars, monitorVars, launcherVars, saves,
                   reader_saw, dbVars>>

ReaderReads ==
    /\ \E file \in SnapshotFiles :
          reader_saw' = [reader_saw EXCEPT ![file] = read(files, file)]
    /\ UNCHANGED <<coreVars, telegramVars, monitorVars, launcherVars, files,
                   writing, saves, dbVars>>

FilesNext ==
    \/ SaveOpens
    \/ SaveFlushes
    \/ SaveCloses
    \/ ReaderReads

SpecFiles == InitFiles /\ [][FilesNext]_vars

(***************************************************************************)
(* Two threads of the trading process calling the DatabaseManager.         *)
(***************************************************************************)
MaxRows == 3
WritePaths == {"save_trade", "vacuum_database"}

InitDatabase == CoreInit /\ AuxInit

EnterWrite ==
    /\ \E thread \in Threads, op \in WritePaths :
          /\ db_threads[thread].pc = "idle"
          /\ db_lock = Free
          /\ db_file < MaxRows
          /\ DApply(enter_write(DCur, thread, op))
    /\ UNCHANGED <<coreVars, telegramVars, monitorVars, launcherVars, fileVars>>

Commit ==
    /\ \E thread \in Threads :
          /\ db_threads[thread].pc = "writing"
          /\ DApply(commit(DCur, thread))
    /\ UNCHANGED <<coreVars, telegramVars, monitorVars, launcherVars, fileVars>>

RestoreBackup ==
    /\ \E thread \in Threads, exists \in BOOLEAN, copied \in BOOLEAN :
          /\ db_threads[thread].pc = "idle"
          /\ DApply(restore_backup(DCur, thread, exists, copied))
    /\ UNCHANGED <<coreVars, telegramVars, monitorVars, launcherVars, fileVars>>

Restored ==
    /\ \E thread \in Threads :
          /\ db_threads[thread].pc = "restoring"
          /\ DApply(restored(DCur, thread))
    /\ UNCHANGED <<coreVars, telegramVars, monitorVars, launcherVars, fileVars>>

DatabaseNext ==
    \/ EnterWrite
    \/ Commit
    \/ RestoreBackup
    \/ Restored

SpecDatabase == InitDatabase /\ [][DatabaseNext]_vars

(***************************************************************************)
(* The main loop of the TradingBot running, sleeping and being shut down,  *)
(* and scans over the tickers of the exchange.                             *)
(***************************************************************************)
sideVars == <<telegramVars, monitorVars, launcherVars, fileVars, dbVars, extraVars>>

InitScan == InitBot

\* the body of the while loop, up to the asyncio.sleep every path ends in
MainLoopPass ==
    /\ main_pc = "body"
    /\ is_running
    /\ loop_count < MaxLoops
    /\ loop_count' = loop_count + 1
    /\ \E env \in LoopEnvs : WApply(_main_loop(WCur, loop_count + 1, env))
    /\ main_pc' = "sleep"
    /\ UNCHANGED <<upbit, safe_mode, now, ticks, handlerVars, strategyVars,
                   sideVars, is_running, scan_log>>

MainLoopSleeps ==
    /\ main_pc = "sleep"
    /\ \E d \in SleepSteps : now' = now + d
    /\ main_pc' = "body"
    /\ UNCHANGED <<positions, order_history, daily_trade_count, daily_loss,
                   last_trade_time, upbit, positions_file, exchange_orders,
                   traded_at, orders_created, safe_mode, ticks, riskVars,
                   botVars, handlerVars, strategyVars, sideVars, is_running,
                   scan_log>>

\* while self.is_running: finds the flag off
MainLoopEnds ==
    /\ main_pc = "body"
    /\ ~is_running
    /\ main_pc' = "ended"
    /\ UNCHANGED <<traderVars, riskVars, botVars, handlerVars, strategyVars,
                   sideVars, is_running, scan_log>>

\* TradingBot.shutdown() as far as the loop sees it
Shutdown ==
    /\ is_running
    /\ is_running' = FALSE
    /\ UNCHANGED <<traderVars, riskVars, botVars, handlerVars, strategyVars,
                   sideVars, main_pc, scan_log>>

ScanTradingOpportunities ==
    /\ \E outcome \in [{KrwTickers[i] : i \in 1..Len(KrwTickers)} -> ScanOutcomes],
          env \in LoopEnvs :
          LET scanned == scan_tickers(WCur, outcome, env)
          IN  /\ WApply(scanned.W)
              /\ scan_log' = scanned.log
    /\ UNCHANGED <<upbit, safe_mode, now, ticks, loop_count, handlerVars,
                   strategyVars, sideVars, is_running, main_pc>>

ScanNext ==
    \/ MainLoopPass
    \/ MainLoopSleeps
    \/ MainLoopEnds
    \/ Shutdown
    \/ ScanTradingOpportunities

SpecScan == InitScan /\ [][ScanNext]_vars

(***************************************************************************)
(* Properties of the Trader.                                               *)
(***************************************************************************)
Held(ticker) == \E p \in DOMAIN positions : positions[p].ticker = ticker

\* C1: no two active positions carry the same ticker, and execute_signal
\* with a BUY for a ticker that is held submits no order, builds no Order
\* and leaves the position map (hence the position count) as it was,
\* whatever the exchange would have answered.
OnePositionPerTicker ==
    /\ \A p, q \in DOMAIN positions :
          positions[p].ticker = positions[q].ticker => p = q
    /\ \A signal \in Signals : \A env \in BuyEnvs :
          (signal.action = "BUY" /\ Held(signal.ticker)) =>
             LET S == execute_signal(Cur, signal, env)
             IN /\ S.exchange_orders = exchange_orders
                /\ S.orders_created = orders_created
                /\ S.positions = positions
                /\ S.ret = FALSE

\* C1 witness: this Trader has filled a BUY, a ticker is held, the exchange
\* client is up and a further BUY for that ticker passes every other check
\* of the validation, so that the held-ticker check is what refuses it.
HeldTickerBuyRefused ==
    /\ upbit
    /\ \E i \in 1..Len(order_history) :
          order_history[i] = OrderRec("BUY", "KRW-BTC", "FILLED")
    /\ \E signal \in Signals :
          /\ signal.action = "BUY" /\ Held(signal.ticker)
          /\ signal.confidence >= MIN_CONFIDENCE
          /\ Cardinality(DOMAIN positions) < max_positions
          /\ daily_loss >= 0
          /\ Seconds(now - LastTrade(Cur, signal.ticker)) >= COOLDOWN
          /\ ~_validate_trading_conditions(Cur, signal)

(***************************************************************************)
(* The five exit conditions, each stated on its own, and the first of a    *)
(* priority list that holds of a position.                                 *)
(***************************************************************************)
ExitConditionHolds(reason, position) ==
    CASE reason = "STOP_LOSS" -> position.current_price <= position.stop_loss
      [] reason = "TAKE_PROFIT" -> position.current_price >= position.take_profit
      [] reason = "FORCE_TIME" -> now - position.entry_time >= HOLD_FORCE
      [] reason = "EMERGENCY" ->
            position.unrealized_pnl * 100 <= 0 - EMERGENCY_LOSS_PCT * position.total_invested
      [] reason = "TIME_BASED" ->
            /\ now - position.entry_time >= HOLD_TIME_BASED
            /\ position.unrealized_pnl * 100 < 0 - TIME_LOSS_PCT * position.total_invested

FirstThatHolds(order, position) ==
    LET hits == {i \in 1..Len(order) : ExitConditionHolds(order[i], position)}
    IN IF hits = {} THEN "NONE"
       ELSE order[CHOOSE i \in hits : \A j \in hits : i <= j]

\* the Trader's state once a call has returned, as the next call finds it
Returned(S) == [S EXCEPT !.ret = FALSE, !.tried = {}, !.failed = {}]

\* every SELL of a cycle is answered with an order uuid
AllSellsFill == [t \in Tickers |-> [price |-> 90, krw |-> 0, balance |-> 50, result |-> TRUE]]

\* C6 (as stated): the reason found for every position is the first that
\* holds in the order STOP_LOSS, TAKE_PROFIT, FORCE_TIME, EMERGENCY,
\* TIME_BASED.
ExitReasonInStatedOrder ==
    \A p \in DOMAIN positions :
        _should_close_position(positions[p]) =
            FirstThatHolds(<<"STOP_LOSS", "TAKE_PROFIT", "FORCE_TIME", "EMERGENCY",
                             "TIME_BASED">>, positions[p])

\* C6 (amended): the reason found for every position is the first that
\* holds in the order STOP_LOSS, TAKE_PROFIT, TIME_BASED, FORCE_TIME,
\* EMERGENCY, and check_exit_conditions submits a SELL for exactly the
\* positions for which one of the five holds.
ExitReasonInCodeOrder ==
    /\ \A p \in DOMAIN positions :
         _should_close_position(positions[p]) =
            FirstThatHolds(<<"STOP_LOSS", "TAKE_PROFIT", "TIME_BASED", "FORCE_TIME",
                             "EMERGENCY">>, positions[p])
    /\ upbit =>
         check_exit_conditions(Cur, AllSellsFill).tried =
            {p \in DOMAIN positions :
                \E r \in {"STOP_LOSS", "TAKE_PROFIT", "TIME_BASED", "FORCE_TIME",
                          "EMERGENCY"} : ExitConditionHolds(r, positions[p])}

\* C6 witness: a position bought by this Trader has been held for 72 h and
\* has lost 10 % without touching its stop-loss: three conditions hold at
\* once and the one evaluated first, TIME_BASED, is the reason.
ThreeExitConditionsHold ==
    \E p \in DOMAIN positions :
        /\ positions[p].entry_time >= 720
        /\ ExitConditionHolds("FORCE_TIME", positions[p])
        /\ ExitConditionHolds("EMERGENCY", positions[p])
        /\ ExitConditionHolds("TIME_BASED", positions[p])
        /\ ~ExitConditionHolds("STOP_LOSS", positions[p])
        /\ _should_close_position(positions[p]) = "TIME_BASED"

\* C7: when the SELL submitted for a position fails, the position map and
\* its snapshot are what they were before the call, and the next
\* check_exit_conditions submits a SELL for the position again if (and only
\* if) an exit condition held of it before the failure.
FailedSellKeepsPosition ==
    upbit =>
      \A p \in DOMAIN positions : \A env \in CloseEnvs :
         (env.balance > 0 /\ env.price # None /\ ~env.result) =>
            LET S == _close_position(Cur, p, env)
            IN /\ S.failed = {p}
               /\ S.positions = positions
               /\ S.positions_file = positions_file
               /\ S.daily_trade_count = daily_trade_count
               /\ p \in check_exit_conditions(Returned(S), AllSellsFill).tried
                     <=> _should_close_position(positions[p]) # "NONE"

\* C7 witness: the last Order of the history is a failed SELL and a
\* position that an exit condition holds of is still in the active set.
FailedSellPositionStillOpen ==
    /\ upbit
    /\ order_history # <<>>
    /\ order_history[Len(order_history)] = OrderRec("SELL", "KRW-BTC", "FAILED")
    /\ \E p \in DOMAIN positions : _should_close_position(positions[p]) # "NONE"

\* C8: every Order built by the Trader is in the order history, with a
\* status other than PENDING.
EveryOrderLeavesPendingIntoHistory ==
    /\ Len(order_history) = orders_created
    /\ \A i \in 1..Len(order_history) :
          order_history[i].status \in {"FILLED", "FAILED", "CANCELLED"}

\* C9: between operations the snapshot in positions.json equals the
\* position map in memory.
SnapshotEqualsPositionMap == positions_file = positions

\* C10: with a configuration built in safe mode no BUY or SELL order
\* reaches the exchange.
SafeModePlacesNoOrder == safe_mode => exchange_orders = <<>>

\* C15: the amount of every market BUY the exchange has received is the
\* per-position capital capped at 90% of the KRW balance available when the
\* order was placed, so that it never exceeds 90% of that balance.
BuyAmountCappedAtNinetyPercent ==
    \A i \in 1..Len(exchange_orders) :
        LET order == exchange_orders[i]
        IN order.side = "BUY" =>
              /\ order.amount * 10 = Min(capital_per_position * 10, 9 * order.krw)
              /\ order.amount * 10 <= 9 * order.krw

\* C16: an order that execute_signal places on a ticker comes at least
\* 3 minutes after the last trade the exchange filled on that ticker.
NoOrderWithinCoolDown ==
    [][ExecuteSignal =>
         \A i \in (Len(exchange_orders) + 1)..Len(exchange_orders') :
             LET order == exchange_orders'[i]
             IN order.ticker \in DOMAIN traded_at =>
                   now - traded_at[order.ticker] >= COOLDOWN]_vars

\* the orders of the history that the exchange filled
FilledOrders ==
    Cardinality({i \in 1..Len(order_history) : order_history[i].status = "FILLED"})

\* C17: once 20 trades have been executed since the last daily reset,
\* execute_signal places no order; daily_trade_count counts exactly the
\* orders filled since that reset.
NoOrderPastDailyLimit ==
    [][/\ (ExecuteSignalFilled /\ daily_trade_count >= DAILY_TRADE_LIMIT)
            => exchange_orders' = exchange_orders
       /\ \/ daily_trade_count' - daily_trade_count = FilledOrders' - FilledOrders
          \/ ResetDailyLimits]_vars

\* C17 witness: 20 orders were placed and filled with no daily reset in
\* between, and the trade count stands at the limit.
TwentyTradesExecuted ==
    /\ daily_trade_count = DAILY_TRADE_LIMIT
    /\ Len(exchange_orders) = DAILY_TRADE_LIMIT
    /\ FilledOrders = DAILY_TRADE_LIMIT

(***************************************************************************)
(* Properties of the RiskManager.                                          *)
(***************************************************************************)
\* C4: a step that takes the risk manager out of emergency mode is an
\* exit_emergency_mode call or a reset_daily_limits call made while
\* risk_override is not set; reset_daily_limits made in emergency mode
\* clears it when risk_override is not set and leaves it when it is set.
EmergencyClearedOnlyByResetOrExit ==
    [][/\ (rm_emergency_mode /\ ~rm_emergency_mode') =>
             (ExitEmergencyMode \/ (~risk_override /\ RiskResetDailyLimits))
       /\ (rm_emergency_mode /\ risk_override /\ RiskResetDailyLimits) =>
             rm_emergency_mode'
       /\ (rm_emergency_mode /\ ~risk_override /\ RiskResetDailyLimits) =>
             ~rm_emergency_mode']_vars

\* C4 witness: emergency mode with no alert left; entering appends the
\* EMERGENCY alert and only reset_daily_limits clears the alerts, so a daily
\* reset ran after the entry, under the override, and emergency mode stayed.
ResetUnderOverrideKeptEmergency ==
    rm_emergency_mode /\ risk_override /\ risk_alerts = <<>>

\* The checks of validate_signal other than the exposure limit and the
\* confidence minimum all let the BUY signal through.
PassesRemainingChecks(signal, env) ==
    /\ signal.action = "BUY"
    /\ ~rm_emergency_mode
    /\ _calculate_daily_pnl_ratio(RCur, env.capital) > 0 - max_daily_loss * 100
    /\ Cardinality(DOMAIN positions) < max_positions
    /\ daily_start_capital > 0
    /\ env.volatility <= MAX_VOLATILITY_PCT
    /\ ~_check_concentration_risk(signal.ticker, positions)
    /\ env.spread <= MAX_SPREAD_PCT

\* (current exposure + per-position capital) * 100
ProjectedExposure == (_calculate_current_exposure(positions) + capital_per_position) * 100

Accepts(signal, env) == validate_signal(RCur, signal, positions, env).ret

\* confidences at, below and above the minimum of the risk gate
GateConfidences == Confidences \cup {RISK_MIN_CONFIDENCE + 10}

\* C13 (as stated): a BUY signal that passes every other check is accepted
\* only with a confidence strictly above 0.7; exactly 0.7 is rejected.
ConfidenceAtMinimumRejected ==
    \A signal \in Signals : \A env \in RiskEnvs : \A c \in GateConfidences :
        (/\ PassesRemainingChecks(signal, env)
         /\ ProjectedExposure <= MAX_TOTAL_EXPOSURE_PCT * daily_start_capital)
        => (Accepts([signal EXCEPT !.confidence = c], env)
                <=> c > RISK_MIN_CONFIDENCE)

\* C13 (amended): a BUY signal that passes every other check is accepted
\* exactly when its confidence is 0.7 or more; any confidence below 0.7 is
\* rejected and exactly 0.7 is accepted.  No signal of a lower confidence
\* is ever among the approved ones.
ConfidenceAtMinimumAccepted ==
    /\ \A signal \in Signals : \A env \in RiskEnvs : \A c \in GateConfidences :
          (/\ PassesRemainingChecks(signal, env)
           /\ ProjectedExposure <= MAX_TOTAL_EXPOSURE_PCT * daily_start_capital)
          => (Accepts([signal EXCEPT !.confidence = c], env)
                  <=> c >= RISK_MIN_CONFIDENCE)
    /\ \A signal \in approved : signal.confidence >= RISK_MIN_CONFIDENCE

\* C13 witness: validate_signal has approved a BUY signal whose confidence
\* is exactly 0.7.
MinimumConfidenceSignalApproved ==
    \E signal \in approved : signal.confidence = RISK_MIN_CONFIDENCE

\* C14: a BUY signal is rejected whenever (current exposure + per-position
\* capital) / daily starting capital is above 0.95, and when that ratio is
\* exactly 0.95 a signal that passes the other checks is accepted.
ExposureRejectedOnlyAboveLimit ==
    \A signal \in Signals : \A env \in RiskEnvs :
        /\ (/\ signal.action = "BUY"
            /\ daily_start_capital > 0
            /\ ProjectedExposure > MAX_TOTAL_EXPOSURE_PCT * daily_start_capital)
           => ~Accepts(signal, env)
        /\ (/\ PassesRemainingChecks(signal, env)
            /\ signal.confidence >= RISK_MIN_CONFIDENCE
            /\ ProjectedExposure = MAX_TOTAL_EXPOSURE_PCT * daily_start_capital)
           => Accepts(signal, env)

\* C14 witness: the projected exposure is exactly 0.95 of the daily starting
\* capital and a signal for a ticker that is not held stands approved.
ExposureExactlyAtLimit ==
    /\ positions # Empty
    /\ daily_start_capital > 0
    /\ ProjectedExposure = MAX_TOTAL_EXPOSURE_PCT * daily_start_capital
    /\ \E signal \in approved : signal.ticker \notin HeldTickers(Cur)

EmergencyIterationStillMonitors ==
    (iteration.ran /\ iteration.emergency) =>
        /\ ~iteration.scanned
        /\ iteration.refreshed
        /\ iteration.exit_checked

\* C18: an iteration that scanned for new entries had evaluated the exit
\* conditions of the open positions before the scan.
ScanOnlyAfterExitCheck ==
    (iteration.ran /\ iteration.scanned) => iteration.exit_checked

(***************************************************************************)
(* Properties of the EnhancedErrorHandler.                                 *)
(***************************************************************************)
\* one of the four emergency triggers holds
EmergencyTrigger ==
    \/ consecutive_errors >= emergency_mode_threshold
    \/ overall_score < MIN_OVERALL
    \/ Cardinality({i \in 1..Len(error_history) :
          /\ error_history[i].timestamp > now - HOUR
          /\ error_history[i].severity \in {"HIGH", "CRITICAL"}})
         > error_rate_per_hour
    \/ api_connection_score = 0

\* C5 (as stated): a monitoring cycle leaves the handler's emergency mode
\* as it is, and a step that clears emergency mode is a reset_emergency_mode
\* call.
HandlerEmergencyLatched ==
    [][/\ (eh_emergency_mode /\ MonitoringCycle) => eh_emergency_mode'
       /\ (eh_emergency_mode /\ ~eh_emergency_mode') => ResetEmergencyMode]_vars

\* C5 (amended): a monitoring cycle that starts in emergency mode keeps it
\* exactly when one of the four triggers holds after the cycle's probes, and
\* a step that clears emergency mode is a reset_emergency_mode call or such
\* a monitoring cycle.
HandlerEmergencyUntilConditionsClear ==
    [][/\ (eh_emergency_mode /\ MonitoringCycle) =>
             (eh_emergency_mode' <=> EmergencyTrigger')
       /\ (eh_emergency_mode /\ ~eh_emergency_mode') =>
             (ResetEmergencyMode \/ MonitoringCycle)]_vars

\* the severity handle_error gave the error it has just appended
LastSeverity == error_history[Len(error_history)].severity

\* C19 (as stated): when handle_error has processed an error assessed as
\* CRITICAL, the handler is in emergency mode.
CriticalErrorEntersEmergency ==
    [][(HandleError /\ Len(error_history') > Len(error_history)
           /\ LastSeverity' = "CRITICAL") => eh_emergency_mode']_vars

\* C19 (amended): handle_error of an error assessed as CRITICAL adds one to
\* consecutive_errors and returns in emergency mode exactly when the handler
\* was in emergency mode already or the counter has reached
\* emergency_mode_threshold.
CriticalErrorCountsTowardsEmergency ==
    [][(HandleError /\ Len(error_history') > Len(error_history)
           /\ LastSeverity' = "CRITICAL") =>
          /\ consecutive_errors' = consecutive_errors + 1
          /\ eh_emergency_mode' <=>
                (eh_emergency_mode
                    \/ consecutive_errors' >= emergency_mode_threshold)]_vars

\* C19 witness: handle_error has processed a CRITICAL error that brought
\* consecutive_errors to the threshold and activated emergency mode.
CriticalErrorReachedThreshold ==
    /\ error_history # <<>>
    /\ LastSeverity = "CRITICAL"
    /\ consecutive_errors = emergency_mode_threshold
    /\ eh_emergency_mode
    /\ eh_log = "ACTIVATED"

\* an error that nothing but the counter makes more than LOW
PlainError == [type |-> "Exception", message |-> {}, category |-> "UNKNOWN"]

AssessedErrors == Errors \cup {PlainError}

Assessed(error) == _assess_severity(HCur, error)

\* C21 (as stated): an error handled while consecutive_errors is 5 or more
\* is assessed CRITICAL; above 3 at least HIGH; above 1 at least MEDIUM.
CriticalFromFiveConsecutive ==
    \A error \in AssessedErrors :
        /\ consecutive_errors >= 5 => Assessed(error) = "CRITICAL"
        /\ consecutive_errors > 3 => Assessed(error) \in {"HIGH", "CRITICAL"}
        /\ consecutive_errors > 1 => Assessed(error) \in {"MEDIUM", "HIGH", "CRITICAL"}

\* C21 (amended): an error handled while consecutive_errors is above 5 (6
\* or more) is assessed CRITICAL; above 3 at least HIGH; above 1 at least
\* MEDIUM.  An error that is LOW by itself is CRITICAL exactly when the
\* counter is above 5, so at a counter of exactly 5 it is HIGH.
CriticalAboveFiveConsecutive ==
    /\ \A error \in AssessedErrors :
          /\ consecutive_errors > 5 => Assessed(error) = "CRITICAL"
          /\ consecutive_errors > 3 => Assessed(error) \in {"HIGH", "CRITICAL"}
          /\ consecutive_errors > 1 => Assessed(error) \in {"MEDIUM", "HIGH", "CRITICAL"}
    /\ Assessed(PlainError) = "CRITICAL" <=> consecutive_errors > 5
    /\ consecutive_errors = 5 => Assessed(PlainError) = "HIGH"

\* C21 witness: handle_error has assessed a TRADING error, HIGH by its
\* category, as CRITICAL because the counter stood above 5.
TradingErrorEscalatedToCritical ==
    /\ consecutive_errors > 5
    /\ \E i \in 1..Len(error_history) :
          /\ error_history[i].category = "TRADING"
          /\ error_history[i].severity = "CRITICAL"

\* C20: a run of MaxRunErrors errors handled one after the other with no
\* successful recovery ends with the handler in emergency mode, whatever
\* the errors are.
LongErrorRunEndsInEmergency ==
    Len(error_history) >= MaxRunErrors => eh_emergency_mode

\* C5 witness: errors had put the handler in emergency mode and a
\* monitoring cycle has cleared it, no reset having been called.
MonitoringCycleClearedEmergency ==
    /\ eh_log = "DEACTIVATED"
    /\ ~eh_emergency_mode
    /\ error_history # <<>>

(***************************************************************************)
(* Properties of the StrategyEngine.                                       *)
(***************************************************************************)
ActiveStrategies == {id \in DOMAIN strategies : strategies[id].is_active}

\* C11: at least 2 strategies of the registry are active.
AtLeastTwoActiveStrategies == Cardinality(ActiveStrategies) >= MIN_STRATEGIES

\* C12: an update_strategy_performance call for an active strategy switches
\* is_active to false exactly when, the trade counted, the strategy has at
\* least 10 trades, a performance score below 0.3 and a failure streak of
\* at least 5; an active strategy that is in that condition before the call
\* (none ever is between two calls) is inactive after it.
PoorStrategyDeactivatedByUpdate ==
    [][(/\ UpdateFirstStrategy
        /\ 1 \in DOMAIN strategies
        /\ strategies[1].is_active
        /\ strategies'[1].total_trades = strategies[1].total_trades + 1) =>
          /\ ~strategies'[1].is_active <=>
                (/\ strategies'[1].total_trades >= 10
                 /\ strategies'[1].performance_score.num * 10
                        < 3 * strategies'[1].performance_score.den
                 /\ strategies'[1].failure_streak >= 5)
          /\ (/\ strategies[1].total_trades >= 10
              /\ strategies[1].performance_score.num * 10
                     < 3 * strategies[1].performance_score.den
              /\ strategies[1].failure_streak >= 5) =>
                ~strategies'[1].is_active]_vars

\* C12 witness: the first strategy is inactive, with at least 10 trades
\* counted, a score below 0.3 and a failure streak of at least 5, while a
\* won trade is among them.
PoorStrategyDeactivated ==
    /\ 1 \in DOMAIN strategies
    /\ ~strategies[1].is_active
    /\ strategies[1].total_trades >= DEACTIVATE_TRADES
    /\ strategies[1].failure_streak >= DEACTIVATE_STREAK
    /\ strategies[1].winning_trades > 0

(***************************************************************************)
(* Properties of the TelegramBot.                                          *)
(***************************************************************************)
Cooldown(message_type) ==
    IF message_type[1] = "error" THEN ERROR_INTERVAL ELSE min_interval

\* the message type was last sent less than its cooldown ago
WithinCooldown(message_type) ==
    /\ message_type \in DOMAIN last_message_time
    /\ time_time - last_message_time[message_type] < Cooldown(message_type)

\* the outbox after one more notification of the message type
After(message_type, took) ==
    IF message_type[1] = "error"
    THEN send_error_notification(TCur, message_type[2], took).outbox
    ELSE send_trade_notification(TCur, message_type[2], took).outbox

MessageTypes ==
    {<<"error", error_type>> : error_type \in ErrorTypes}
        \cup {<<"trade", action>> : action \in TradeActions}

\* C22: with the service enabled, a notification whose message type was
\* sent less than its cooldown ago (10 s for a trade, 300 s for an error)
\* posts nothing, so two sends within the window give one outbound message;
\* a notification sent when the cooldown has elapsed posts one more message
\* of that type.  Two posted messages of one type are never closer than
\* the cooldown.
OneMessagePerCooldown ==
    /\ \A i, j \in 1..Len(outbox) :
          i < j /\ outbox[i].type = outbox[j].type
              => outbox[j].at - outbox[i].at >= Cooldown(outbox[i].type)
    /\ enabled =>
          \A key \in MessageTypes, took \in PostDurations :
              IF WithinCooldown(key)
              THEN After(key, took) = outbox
              ELSE After(key, took) =
                       Append(outbox, [type |-> key, at |-> time_time])

\* C22 witness: a second error notification of the same type has been
\* posted exactly one cooldown after the first.
SecondMessageAfterCooldown ==
    \E i, j \in 1..Len(outbox) :
        /\ i < j
        /\ outbox[i].type[1] = "error"
        /\ outbox[j].type = outbox[i].type
        /\ outbox[j].at - outbox[i].at = ERROR_INTERVAL

(***************************************************************************)
(* Properties of the EnhancedBotMonitor.                                   *)
(***************************************************************************)
AutomaticLaunches ==
    Cardinality({i \in 1..Len(launches) : launches[i].by = "loop"})

\* C23: the monitoring loop starts the trading process at most
\* restart_threshold times, whether or not the earlier starts succeeded.
AutomaticRestartsBounded ==
    AutomaticLaunches <= restart_threshold

(***************************************************************************)
(* Properties of the BotLauncher.                                          *)
(***************************************************************************)
\* the supervised child has exited with a code other than 0
ExitedAbnormally ==
    /\ ~children[bot_process].alive
    /\ children[bot_process].code # 0

\* C24: the launcher starts a child again at most max_restarts (5) times;
\* every relaunch comes after a sleep of restart_interval (30 s) that
\* starts no child, so two children are started at least that far apart;
\* once restart_count has reached max_restarts, finding the child exited
\* abnormally ends monitor_bot with no further child.
RelaunchBoundedAndSpaced ==
    /\ Len(children) - 1 <= max_restarts
    /\ launcher_restarts <= max_restarts
    /\ \A i \in 2..Len(children) :
          children[i].started_at >= children[i - 1].started_at + restart_interval
    /\ launcher_pc = "restart_sleep" =>
          /\ restart_sleep(LCur).clock = launcher_clock + restart_interval
          /\ restart_sleep(LCur).children = children
    /\ launcher_pc = "start_bot" =>
          \A spawned \in BOOLEAN :
              \A i \in 1..Len(start_bot(LCur, spawned).children) :
                  i > Len(children) =>
                      start_bot(LCur, spawned).children[i].started_at
                          >= children[bot_process].started_at + restart_interval
    /\ (launcher_pc = "poll" /\ should_restart /\ ExitedAbnormally
           /\ launcher_restarts = max_restarts) =>
          \A gone \in BOOLEAN :
              /\ poll(LCur, gone).pc = "returned"
              /\ poll(LCur, gone).children = children

\* C24 witness: the fifth relaunched child has exited abnormally and
\* monitor_bot has returned without a signal.
SupervisionEndedAtLimit ==
    /\ launcher_pc = "returned"
    /\ should_restart
    /\ Len(children) = max_restarts + 1
    /\ launcher_restarts = max_restarts
    /\ bot_process = Len(children)
    /\ ExitedAbnormally

\* C25: a child is killed only after terminate() was sent to it, and once
\* the launcher has left through signal_handler no child it started is
\* running (so none was started and left behind around the signal).
SignalStopsTheChild ==
    /\ \A c \in 1..Len(children) : children[c].killed => children[c].terminated
    /\ launcher_pc = "exited" => \A c \in 1..Len(children) : ~children[c].alive

(***************************************************************************)
(* Properties of the snapshot files.                                       *)
(***************************************************************************)
\* C26: a reader in another process never finds a snapshot file empty or
\* partially written.
ReaderSeesWholeSnapshots ==
    \A file \in SnapshotFiles : reader_saw[file] \notin {"empty", "partial"}

(***************************************************************************)
(* Properties of the EnhancedErrorHandler's threads: handle_error runs in  *)
(* the thread of its caller, monitoring_loop in the background thread.     *)
(***************************************************************************)
\* C27: a pass of the background monitoring loop writes none of the state
\* that handle_error writes: the error history, the consecutive-error
\* counter, the health score and the emergency flag.
MonitoringLoopWritesNoSharedState ==
    [][MonitoringCycle =>
          UNCHANGED <<error_history, consecutive_errors, overall_score,
                      eh_emergency_mode>>]_vars

(***************************************************************************)
(* Properties of the DatabaseManager.                                      *)
(***************************************************************************)
Modifying == {thread \in Threads : db_threads[thread].pc \in {"writing", "restoring"}}

\* C28: at most one thread is modifying the database file, and a thread
\* that is modifying it holds the lock.
WritersHoldTheLock ==
    /\ Cardinality(Modifying) <= 1
    /\ \A thread \in Modifying : db_lock = thread

\* C29: a thread that is overwriting the live file from a backup has first
\* created the pre-restore backup of the live file.
RestoreOnlyAfterBackup ==
    \A thread \in Threads :
        db_threads[thread].pc = "restoring" => db_threads[thread].backed_up

(***************************************************************************)
(* Properties of the main loop and of the scan.                            *)
(***************************************************************************)
ScanTickers == {KrwTickers[i] : i \in 1..Len(KrwTickers)}

Logged(log, ticker) == \E i \in 1..Len(log) : log[i].ticker = ticker

Bought(log) == Cardinality({i \in 1..Len(log) : log[i].result = "bought"})

\* C30: in a scan, a ticker whose analysis raises is logged as raised and
\* every other candidate ticker with a price is still analysed (unless
\* MAX_SIGNALS buys were made before it); the main loop ends only when
\* is_running is off, and a pass of its body, raising or not, leaves the
\* loop sleeping before the next pass.
ExceptionsDoNotStopScanOrLoop ==
    /\ \A outcome \in [ScanTickers -> ScanOutcomes], env \in LoopEnvs :
          LET log == scan_tickers(WCur, outcome, env).log
          IN  Cardinality(DOMAIN positions) < max_positions =>
                \A ticker \in ScanTickers :
                    /\ (/\ ticker \notin HeldTickers(Cur)
                        /\ outcome[ticker] # "no_price"
                        /\ Bought(log) < MAX_SIGNALS) => Logged(log, ticker)
                    /\ \A i \in 1..Len(log) :
                          log[i].ticker = ticker =>
                              (log[i].result = "raised"
                                   <=> outcome[ticker] = "raises")
    /\ main_pc = "ended" => ~is_running
    /\ (main_pc = "body" /\ is_running /\ loop_count < MaxLoops) =>
          \A env \in LoopEnvs : _main_loop(WCur, loop_count + 1, env).iteration.ran

\* C30 witness: a scan went on to analyse a ticker after the analysis of an
\* earlier one had raised, and the main loop has run a second pass after a
\* first one that raised.
ScanAndLoopWentOn ==
    /\ \E i, j \in 1..Len(scan_log) :
          /\ i < j
          /\ scan_log[i].result = "raised"
          /\ scan_log[j].result # "raised"
    /\ loop_count = 2
    /\ ~iteration.refreshed
    /\ main_pc = "sleep"
    /\ is_running

(***************************************************************************)
(* The answers an emergency close can get for the positions held.          *)
(***************************************************************************)
EmergencyCloseEnvs ==
    EnvsFor(HeldTickers(Cur), CloseEnvs, CHOOSE e \in CloseEnvs : TRUE)

\* C31: whatever the exchange answers, emergency_close_all_positions
\* returns true if and only if none of the positions that were open when it
\* was called is in the active set afterwards.
EmergencyCloseTrueIffNoneRemains ==
    \A envs \in EmergencyCloseEnvs :
        LET S == emergency_close_all_positions(Cur, envs)
        IN  S.ret <=> (DOMAIN positions \cap DOMAIN S.positions = {})

(***************************************************************************)
(* The OHLCV cache of one DataCollector that runs for more than a day:     *)
(* get_ohlcv is called for a few keys while the clock advances by less     *)
(* than the cache lifetime, by more than it, and by a day.                 *)
(***************************************************************************)
MaxQueries == 3
MaxSecondOfDay == 40     \* the seconds after midnight the clock is looked at
MaxCacheClock == DAY_SECONDS + MaxSecondOfDay
CacheSteps == {10, 30, DAY_SECONDS}
Timeframes == {"minute1", "minute5"}
Counts == {200}

InitCache == CoreInit /\ AuxInit

notCacheVars ==
    <<traderVars, riskVars, botVars, handlerVars, strategyVars, loopVars,
      telegramVars, monitorVars, launcherVars, fileVars, dbVars, resetVars,
      no_restart>>

GetOhlcv ==
    /\ queries < MaxQueries
    /\ \E ticker \in Tickers, timeframe \in Timeframes, count \in Counts,
          df \in {NoFrame, cache_now} :
          CApply(get_ohlcv(CCur, ticker, timeframe, count, df))
    /\ UNCHANGED notCacheVars

CacheClockAdvances ==
    /\ \E step \in CacheSteps :
          /\ cache_now + step <= MaxCacheClock
          /\ (cache_now + step) % DAY_SECONDS <= MaxSecondOfDay
          /\ cache_now' = cache_now + step
    /\ UNCHANGED <<data_cache, queries, ohlcv_ret, notCacheVars>>

CacheNext ==
    \/ GetOhlcv
    \/ CacheClockAdvances

SpecCache == InitCache /\ [][CacheNext]_vars

\* the age of the entry cached under a key
Age(cache_key) == cache_now - data_cache[cache_key].timestamp

\* C32: get_ohlcv answers from the cache only with the entry stored under
\* the same (ticker, timeframe, count) key less than cache_duration seconds
\* ago; otherwise the exchange is queried.
CacheServesOnlyFreshEntries ==
    \A ticker \in Tickers, timeframe \in Timeframes, count \in Counts :
        LET cache_key == _get_cache_key(ticker, timeframe, count)
            C == get_ohlcv(CCur, ticker, timeframe, count, cache_now)
        IN  IF cache_key \in DOMAIN data_cache /\ Age(cache_key) < cache_duration
            THEN /\ C.ret = [source |-> "cache", data |-> data_cache[cache_key].data]
                 /\ C.queries = queries
            ELSE /\ C.ret.source = "exchange"
                 /\ C.queries = queries + 1

\* C33: the adjustment made when a trade result brings a strategy to five or
\* more consecutive successes does not raise its minimum entry score, does
\* not lower its profit target, and leaves the profit target at 25% at most.
AggressiveNudgeLowersMinScore ==
    \A strategy_id \in DOMAIN strategies, profit \in Profits :
        LET before == strategies[strategy_id]
            after == update_strategy_performance(strategies, strategy_id,
                                                 profit)[strategy_id]
        IN  after.success_streak >= AGGRESSIVE_STREAK =>
                /\ after.min_score <= before.min_score
                /\ after.profit_target >= before.profit_target
                /\ after.profit_target <= 250

(***************************************************************************)
(* DataCollector.get_balance and get_all_balances.  A query is what        *)
(* happens at the exchange: it fails (an exception, or no private API      *)
(* object) or it reports a balance.  Both methods answer a failed query    *)
(* with the value that stands for no balance.                              *)
(***************************************************************************)
BalanceQueries == [failed : BOOLEAN, balance : Balances]

get_balance(query) == IF query.failed THEN 0 ELSE query.balance

get_all_balances(failed, reported) ==
    IF failed THEN [ticker \in Tickers |-> 0] ELSE reported

\* a close of a position whose balance query went as given, at a quoted price
CloseAfter(pid, query, result) ==
    _close_position(Cur, pid, [price |-> 90, krw |-> 0,
                               balance |-> get_balance(query), result |-> result])

\* C34: a position leaves the active set without a filled SELL only when the
\* exchange reported that its balance is gone; a balance query that failed
\* removes no position, neither in _close_position nor in
\* force_sync_balances.
OnlyReportedEmptyBalanceDropsPosition ==
    \A pid \in DOMAIN positions :
        /\ \A query \in BalanceQueries, result \in BOOLEAN :
              LET S == CloseAfter(pid, query, result)
              IN  (pid \notin DOMAIN S.positions /\ ~S.ret) =>
                      (~query.failed /\ query.balance = 0)
        /\ \A failed \in BOOLEAN, reported \in [Tickers -> Balances] :
              LET S == force_sync_balances(Cur, get_all_balances(failed, reported))
              IN  pid \notin DOMAIN S.positions =>
                      (~failed /\ reported[positions[pid].ticker] = 0)

(***************************************************************************)
(* A trading day with exits: a position may have been loaded from          *)
(* positions.json, the signals of the day are executed and                 *)
(* filled, the price of a held coin falls to its stop-loss, and            *)
(* check_exit_conditions runs.                                             *)
(***************************************************************************)
InitStopLoss ==
    /\ \E file \in PositionFiles : TraderInit(file, TRUE)
    /\ exchange_orders = <<>>
    /\ traded_at = Empty
    /\ safe_mode = FALSE
    /\ now \in StartTimes
    /\ ticks = 0
    /\ RiskInit([ok |-> FALSE, total |-> 0])
    /\ BotInit
    /\ HandlerInit(DEFAULT_EMERGENCY_THRESHOLD)
    /\ StrategyInit
    /\ AuxInit

PriceFalls ==
    /\ DOMAIN positions # {}
    /\ \E price \in StopLosses :
          Apply(update_positions(Cur, [ticker \in Tickers |-> price]))
    /\ UNCHANGED <<upbit, safe_mode, now, ticks, riskVars, botVars, handlerVars, strategyVars, auxVars>>

ExitCheck ==
    /\ orders_created < MaxDayOrders
    /\ Apply(check_exit_conditions(Cur, AllSellsFill))
    /\ UNCHANGED <<upbit, safe_mode, now, ticks, riskVars, botVars, handlerVars, strategyVars, auxVars>>

StopLossNext ==
    \/ ExecuteSignalFilled
    \/ CoolDownTick
    \/ PriceFalls
    \/ ExitCheck

SpecStopLoss == InitStopLoss /\ [][StopLossNext]_vars

\* the exchange reports the balance and quotes a price; the order may fail
AnsweredCloseEnvs == {env \in CloseEnvs : env.balance > 0 /\ env.price # None}

AtStopLoss(position) == position.current_price <= position.stop_loss

\* C35: when check_exit_conditions runs and the exchange answers the balance
\* and price queries, a SELL is sent for every open position whose current
\* price is at or below its stop-loss, whatever the daily trade count, the
\* time since the last trade on the ticker and the day's loss are.
StopLossSellIgnoresTradeGates ==
    \A envs \in [Tickers -> AnsweredCloseEnvs] :
        LET S == check_exit_conditions(Cur, envs)
        IN  \A p \in DOMAIN positions :
                AtStopLoss(positions[p]) =>
                    /\ p \in S.tried
                    /\ Len(S.exchange_orders) > Len(exchange_orders)
                    /\ envs[positions[p].ticker].result => p \notin DOMAIN S.positions

\* C35 witness: the twenty-first order of the day is a stop-loss SELL that
\* no validation preceded, sent within the cool-down of the twentieth trade.
StopLossSoldPastDailyLimit ==
    /\ daily_trade_count = DAILY_TRADE_LIMIT + 1
    /\ ticks = DAILY_TRADE_LIMIT - 1
    /\ Len(exchange_orders) = DAILY_TRADE_LIMIT + 1
    /\ exchange_orders[Len(exchange_orders)].side = "SELL"
    /\ positions = Empty

\* the clock is inside the window in which _check_daily_reset acts
Midnight == now % DAY <= RESET_WINDOW

\* C36: with the risk manager in emergency mode and no override set, a loop
\* iteration that runs in the midnight window performs the daily reset, and
\* the risk manager has left emergency mode when the iteration ends.
EmergencyDoesNotBlockDailyReset ==
    (rm_emergency_mode /\ ~risk_override /\ Midnight) =>
        \A env \in LoopEnvs :
            LET W == _main_loop(WCur, loop_count + 1, env)
            IN  /\ W.iteration.ran
                /\ ~W.R.emergency_mode

(***************************************************************************)
(* The nights of a TradingBot: _check_daily_reset is called once per loop  *)
(* iteration, the loop sleeps a minute between two iterations, and signals *)
(* are executed in between.  "일일 통계 리셋" is logged by every call that     *)
(* resets.                                                                 *)
(***************************************************************************)
MaxResetChecks == 3
MaxMinute == 7              \* the loop is followed from 00:00 to 00:07

InitDailyReset == InitBot

CheckDailyReset ==
    /\ Len(reset_log) < MaxResetChecks
    \* the loop sleeps between two iterations: one call in a minute
    /\ \A i \in 1..Len(reset_log) : reset_log[i] # now
    /\ \E env \in LoopEnvs : WApply(_check_daily_reset(WCur, env.risk.capital))
    /\ reset_log' = IF now % DAY <= RESET_WINDOW THEN Append(reset_log, now)
                    ELSE reset_log
    /\ UNCHANGED <<upbit, safe_mode, now, ticks, loop_count, handlerVars,
                   strategyVars, loopVars, telegramVars, monitorVars,
                   launcherVars, fileVars, dbVars, cacheVars, no_restart>>

LoopSleepsAMinute ==
    /\ now < MaxMinute
    /\ now' = now + 1
    /\ UNCHANGED <<positions, order_history, daily_trade_count, daily_loss,
                   last_trade_time, upbit, positions_file, exchange_orders,
                   traded_at, orders_created, safe_mode, ticks, riskVars, botVars,
                   handlerVars, strategyVars, auxVars>>

DailyResetNext ==
    \/ CheckDailyReset
    \/ LoopSleepsAMinute
    \/ ExecuteSignal

SpecDailyReset == InitDailyReset /\ [][DailyResetNext]_vars

\* C37: the daily reset is executed at most once in a night: no two of the
\* resets logged fall into the same day.
DailyResetOncePerMidnight ==
    \A i, j \in 1..Len(reset_log) :
        i # j => reset_log[i] \div DAY # reset_log[j] \div DAY

\* C38: the cool-down check of _validate_trading_conditions rejects a ticker
\* only when a trade on it is recorded less than 3 minutes before now; a
\* ticker with no recorded trade, or with a last trade 3 minutes or more ago
\* (more than a day included), passes the check.
CoolDownRejectsOnlyRecentTrades ==
    \A ticker \in Tickers :
        InCoolDown(Cur, ticker) =>
            /\ ticker \in DOMAIN last_trade_time
            /\ now - last_trade_time[ticker] < COOLDOWN

(***************************************************************************)
(* A Trader that is offered more tickers than it may hold: BUY and SELL    *)
(* signals for three tickers, an exchange that fills every order, and a    *)
(* clock that advances by one cool-down.  positions.json is as an earlier  *)
(* run with the same settings left it.                                     *)
(***************************************************************************)
MaxPositionOrders == 4
MaxPositionTicks == 2

PositionSignals ==
    [action : {"BUY", "SELL"}, ticker : {KrwTickers[i] : i \in 1..Len(KrwTickers)},
     confidence : {RISK_MIN_CONFIDENCE}, stop_loss : StopLosses,
     take_profit : TakeProfits]

InitPositions == InitStopLoss

ExecutePositionSignal ==
    /\ orders_created < MaxPositionOrders
    /\ \E signal \in PositionSignals : \E env \in FilledEnvs(signal) :
          Apply(execute_signal(Cur, signal, env))
    /\ UNCHANGED <<upbit, safe_mode, now, ticks, riskVars, botVars, handlerVars, strategyVars, auxVars>>

PositionTick ==
    /\ ticks < MaxPositionTicks
    /\ ticks' = ticks + 1
    /\ now' = now + COOLDOWN
    /\ UNCHANGED <<positions, order_history, daily_trade_count, daily_loss,
                   last_trade_time, upbit, positions_file, exchange_orders,
                   traded_at, orders_created, safe_mode, riskVars, botVars,
                   handlerVars, strategyVars, auxVars>>

PositionsNext ==
    \/ ExecutePositionSignal
    \/ PositionTick

SpecPositions == InitPositions /\ [][PositionsNext]_vars

InitRun ==
    /\ CoreInit
    /\ TelegramInit
    /\ MonitorInit
    /\ \E flag \in BOOLEAN : run(flag)
    /\ FilesInit
    /\ DatabaseInit
    /\ LoopInit
    /\ CacheInit
    /\ ResetInit

SpecRun == InitRun /\ [][LauncherNext]_vars

\* C40: a launcher started with --no-restart starts no second child, and
\* its monitor_bot does not return while the child is still running.
NoRestartSupervisesUntilExit ==
    no_restart =>
        /\ Len(children) = 1
        /\ launcher_pc = "returned" => ~children[bot_process].alive

====
